---- MODULE Spec2Model ----
(***************************************************************************)
(* A model of garmin-running-ai: the form scorer (form_analyzer.py), the   *)
(* synthetic progression generator (synthetic_data_generator.py), the gap  *)
(* predictor (models/predict_form_gaps.py) and the scripts that call them. *)
(*                                                                         *)
(* Numbers.  The Python code computes in binary floating point.  Here a    *)
(* metric value is an integer count of hundredths (7.25 cm is 725), a      *)
(* returned score is an integer count of tenths (85.5 is 855), and every   *)
(* intermediate quantity is an exact fraction [n, d] with d > 0.  Python's *)
(* round() is PyRound: nearest, ties to even.  Inputs whose exact result   *)
(* sits on a rounding tie are left out of the input sets, because there    *)
(* the binary representation error of the float decides the direction.     *)
(***************************************************************************)
EXTENDS Integers, Sequences, FiniteSets, TLC

VARIABLES
    op,       \* the operation that produced the current state
    args,     \* its arguments
    result,   \* what it returned (or the exception it raised)
    files,    \* the data files on disk: file name -> content
    rng,      \* numpy's global generator: [seed, calls]
    steps     \* how many operations have run

vars == <<op, args, result, files, rng, steps>>

----------------------------------------------------------------------------
(* Arithmetic helpers *)

\* hundredths per unit of a metric value
VScale == 100

Max(a, b) == IF a >= b THEN a ELSE b
Min(a, b) == IF a <= b THEN a ELSE b
Abs(a) == IF a >= 0 THEN a ELSE -a

\* an exact fraction n/d, d > 0
Frac(n, d) == [n |-> n, d |-> d]
FracGeq(x, y) == x.n * y.d >= y.n * x.d
FracMax(x, y) == IF FracGeq(x, y) THEN x ELSE y
FracMin(x, y) == IF FracGeq(x, y) THEN y ELSE x

\* Python round(): the integer nearest to n/d, a tie going to the even one
PyRound(n, d) ==
    LET q == n \div d
        r == n % d
    IN  IF 2 * r > d THEN q + 1
        ELSE IF 2 * r < d THEN q
        ELSE IF q % 2 = 0 THEN q ELSE q + 1

\* n/d lies exactly halfway between two integers
IsTie(n, d) == 2 * (n % d) = d

----------------------------------------------------------------------------
(* form_analyzer.py: the benchmark table and score_metric *)

\* str.lower() on the words of the benchmark descriptions
Lower(w) ==
    CASE w = "Steps" -> "steps"
      [] w = "Vertical" -> "vertical"
      [] w = "Ground" -> "ground"
      [] w = "Step" -> "step"
      [] w = "HR" -> "hr"
      [] OTHER -> w

\* `word in text.lower()` on a description held as its sequence of words
Contains(text, word) == \E i \in DOMAIN text : Lower(text[i]) = word

Range(lo, hi) == [min |-> lo, max |-> hi]

BENCHMARKS ==
    [ cadence_spm |->
        [ elite |-> Range(18000, 20000), good |-> Range(16500, 18000),
          target |-> Range(16500, 18000),
          description |-> <<"Steps", "per", "minute">> ],
      vertical_oscillation_cm |->
        [ elite |-> Range(0, 700), good |-> Range(700, 900),
          target |-> Range(700, 800),
          description |-> <<"Vertical", "bounce", "(", "cm", ")", "-",
                            "lower", "is", "better">> ],
      vertical_ratio |->
        [ elite |-> Range(0, 700), good |-> Range(700, 900),
          target |-> Range(700, 850),
          description |-> <<"Vertical", "movement", "ratio", "(", "%", ")",
                            "-", "lower", "is", "better">> ],
      ground_contact_time_ms |->
        [ elite |-> Range(20000, 24000), good |-> Range(24000, 28000),
          target |-> Range(24000, 27000),
          description |-> <<"Ground", "contact", "time", "(", "ms", ")",
                            "-", "shorter", "is", "better">> ],
      step_speed_loss_percent |->
        [ elite |-> Range(0, 400), good |-> Range(400, 800),
          target |-> Range(400, 600),
          description |-> <<"Step", "speed", "loss", "(", "%", ")", "-",
                            "lower", "is", "better">> ],
      hr_efficiency |->
        [ elite |-> Range(8500, 10000), good |-> Range(7500, 8500),
          target |-> Range(7500, 9000),
          description |-> <<"HR", "as", "%", "of", "max", "(", "lower", "=",
                            "more", "efficient", ")">> ] ]

BenchmarkKeys == DOMAIN BENCHMARKS

InRange(value, r) == r.min <= value /\ value <= r.max

\* the polarity test of score_metric: "lower" in bench["description"].lower()
LowerIsBetter(bench) == Contains(bench.description, "lower")

\* the branch for "lower is better" metrics: the exact score before rounding
LowerScore(value, bench) ==
    IF InRange(value, bench.elite) THEN Frac(100, 1)
    ELSE IF InRange(value, bench.good) THEN
        LET range_size == bench.good.max - bench.good.min
        IN  Frac(70 * range_size + (value - bench.good.min) * 30, range_size)
    ELSE IF value < bench.elite.min THEN Frac(100, 1)
    ELSE FracMax(Frac(30, 1),
                 Frac(70 * VScale - (value - bench.good.max) * 5, VScale))

\* the branch for "higher is better" metrics
HigherScoreNoFloor(value, bench) ==
    IF InRange(value, bench.elite) THEN Frac(100, 1)
    ELSE IF InRange(value, bench.target) THEN
        LET range_size == bench.target.max - bench.target.min
        IN  Frac(75 * range_size + (value - bench.target.min) * 25, range_size)
    ELSE IF value < bench.target.min THEN
        Frac(75 * VScale - (bench.target.min - value) * 2, VScale)
    ELSE FracMax(Frac(0, 1),
                 Frac(75 * VScale - (value - bench.target.max) * 3, VScale))
HigherScore(value, bench) ==
    IF InRange(value, bench.elite) THEN Frac(100, 1)
    ELSE IF InRange(value, bench.target) THEN
        LET range_size == bench.target.max - bench.target.min
        IN  Frac(75 * range_size + (value - bench.target.min) * 25, range_size)
    ELSE IF value < bench.target.min THEN
        FracMax(Frac(30, 1),
                Frac(75 * VScale - (bench.target.min - value) * 2, VScale))
    ELSE FracMax(Frac(0, 1),
                 Frac(75 * VScale - (value - bench.target.max) * 3, VScale))

\* `score` of score_metric, lines 76-101
RawScore(value, benchmark_key) ==
    LET bench == BENCHMARKS[benchmark_key]
    IN  IF LowerIsBetter(bench) THEN LowerScore(value, bench)
        ELSE HigherScore(value, bench)

\* max(0, min(100, score))
Clamp(score) == FracMax(Frac(0, 1), FracMin(Frac(100, 1), score))

\* the status label, computed from the score before clamping and rounding
StatusOf(score) ==
    IF FracGeq(score, Frac(95, 1)) THEN "Elite"
    ELSE IF FracGeq(score, Frac(75, 1)) THEN "Good"
    ELSE IF FracGeq(score, Frac(60, 1)) THEN "Target"
    ELSE "Develop"

\* round(x, 1) of a fraction, as a count of tenths
RoundTenths(x) == PyRound(10 * x.n, x.d)

\* score_metric without the clamp, the rounding applied to the bare ladder
score_metric_unclamped(value, benchmark_key) ==
    LET bench == BENCHMARKS[benchmark_key]
        score == IF LowerIsBetter(bench) THEN LowerScore(value, bench)
                 ELSE IF value > bench.target.max /\ ~InRange(value, bench.elite)
                      THEN Frac(75 * VScale - (value - bench.target.max) * 3, VScale)
                      ELSE HigherScore(value, bench)
    IN  [ value |-> value,
          score |-> RoundTenths(score),
          benchmark |-> benchmark_key,
          status |-> StatusOf(score) ]
score_metric(value, benchmark_key) ==
    LET score == RawScore(value, benchmark_key)
    IN  [ value |-> value,
          score |-> RoundTenths(Clamp(score)),
          benchmark |-> benchmark_key,
          status |-> StatusOf(score) ]

\* the exact score of this input sits on a rounding tie of round(score, 1)
ScoreTie(value, benchmark_key) ==
    LET s == Clamp(RawScore(value, benchmark_key))
    IN  IsTie(10 * s.n, s.d)

----------------------------------------------------------------------------
(* form_analyzer.py: analyze_form *)

\* the weights of the overall score, in hundredths
weights_heavy_ssl ==
    [ cadence |-> 15, vertical_oscillation |-> 20, ground_contact_time |-> 20,
      step_speed_loss |-> 35, hr_efficiency |-> 20 ]
weights ==
    [ cadence |-> 15, vertical_oscillation |-> 20, ground_contact_time |-> 20,
      step_speed_loss |-> 25, hr_efficiency |-> 20 ]

\* sum(metrics[key]["score"] * weights[key] for key in weights): tenths x hundredths
WeightedSum(metrics) ==
    metrics.cadence.score * weights.cadence
    + metrics.vertical_oscillation.score * weights.vertical_oscillation
    + metrics.ground_contact_time.score * weights.ground_contact_time
    + metrics.step_speed_loss.score * weights.step_speed_loss
    + metrics.hr_efficiency.score * weights.hr_efficiency

\* hr_eff = (avg_hr / max_hr) * 100, in hundredths; the caller excludes max_hr = 0
HrEfficiency(profile) == (profile.avg_hr * 100 * VScale) \div profile.max_hr

\* the six scored metrics of analyze_form, lines 127-149
FormMetrics(profile) ==
    [ cadence |-> score_metric(profile.avg_cadence, "cadence_spm"),
      vertical_oscillation |->
          score_metric(profile.avg_vertical_oscillation, "vertical_oscillation_cm"),
      vertical_ratio |-> score_metric(profile.avg_vertical_ratio, "vertical_ratio"),
      ground_contact_time |->
          score_metric(profile.avg_ground_contact_time, "ground_contact_time_ms"),
      step_speed_loss |->
          score_metric(profile.avg_step_speed_loss_pct, "step_speed_loss_percent"),
      hr_efficiency |-> score_metric(HrEfficiency(profile), "hr_efficiency") ]

MetricNames == DOMAIN FormMetrics([ avg_cadence |-> 0, avg_vertical_oscillation |-> 0,
    avg_vertical_ratio |-> 0, avg_ground_contact_time |-> 0,
    avg_step_speed_loss_pct |-> 0, avg_hr |-> 0, max_hr |-> 1 ])

\* analyze_form(df, profile): the analysis, or the exception it raises
analyze_form(profile) ==
    IF profile.max_hr = 0 THEN [ raised |-> "ZeroDivisionError" ]
    ELSE
        LET metrics == FormMetrics(profile)
        IN  [ raised |-> "",
              metrics |-> metrics,
              overall_score |-> PyRound(WeightedSum(metrics), 100),
              strengths |-> { m \in MetricNames : metrics[m].score >= 800 },
              improvement_areas |-> { m \in MetricNames : metrics[m].score < 700 },
              recommendations |->
                  { m \in {"cadence"} : profile.avg_cadence < 16500 }
                  \cup { m \in {"step_speed_loss"} : profile.avg_step_speed_loss_pct > 700 }
                  \cup { m \in {"vertical_oscillation"} :
                            profile.avg_vertical_oscillation > 850 }
                  \cup { m \in {"ground_contact_time"} :
                            profile.avg_ground_contact_time > 28000 } ]

----------------------------------------------------------------------------
(* The scorer's operations and the inputs they are applied to *)

\* how far past a benchmark's outermost breakpoints the scored values go, in units
Margin == 26

BreakpointLo(k) ==
    Min(BENCHMARKS[k].elite.min, Min(BENCHMARKS[k].good.min, BENCHMARKS[k].target.min))
BreakpointHi(k) ==
    Max(BENCHMARKS[k].elite.max, Max(BENCHMARKS[k].good.max, BENCHMARKS[k].target.max))

\* every hundredth from Margin below the lowest breakpoint to Margin above the highest
ValueWindow(k) ==
    (BreakpointLo(k) - Margin * VScale) .. (BreakpointHi(k) + Margin * VScale)

CadenceValues == {15748, 16400, 17000, 18500, 21000}
OscillationValues == {650, 750, 1000}
RatioValues == {650, 800, 1200}
ContactTimeValues == {19000, 23000, 25000, 29000}
SpeedLossValues == {300, 500, 900}
\* <<avg_hr, max_hr>>
HeartRates == {<<15000, 20000>>, <<17000, 20000>>, <<12000, 16000>>, <<14400, 16000>>,
               <<15000, 0>>}

Profiles ==
    { [ avg_cadence |-> c, avg_vertical_oscillation |-> vo, avg_vertical_ratio |-> vr,
        avg_ground_contact_time |-> gct, avg_step_speed_loss_pct |-> ssl,
        avg_hr |-> hr[1], max_hr |-> hr[2] ] :
      c \in CadenceValues, vo \in OscillationValues, vr \in RatioValues,
      gct \in ContactTimeValues, ssl \in SpeedLossValues, hr \in HeartRates }

\* the floats of this profile are exact in the model: no division remainder, no tie
ExactProfile(profile) ==
    profile.max_hr # 0 =>
        /\ (profile.avg_hr * 100 * VScale) % profile.max_hr = 0
        /\ ~ScoreTie(profile.avg_cadence, "cadence_spm")
        /\ ~ScoreTie(profile.avg_vertical_oscillation, "vertical_oscillation_cm")
        /\ ~ScoreTie(profile.avg_vertical_ratio, "vertical_ratio")
        /\ ~ScoreTie(profile.avg_ground_contact_time, "ground_contact_time_ms")
        /\ ~ScoreTie(profile.avg_step_speed_loss_pct, "step_speed_loss_percent")
        /\ ~ScoreTie(HrEfficiency(profile), "hr_efficiency")
        /\ ~IsTie(WeightedSum(FormMetrics(profile)), 100)

NoFiles == [ n \in {} |-> <<>> ]
FreshRng == [seed |-> 0, calls |-> 0]

InitScorer ==
    /\ op = "start"
    /\ args = <<>>
    /\ result = <<>>
    /\ files = NoFiles
    /\ rng = FreshRng
    /\ steps = 0

ScoreMetric ==
    /\ op = "start"
    /\ \E k \in BenchmarkKeys :
        \E v \in ValueWindow(k) :
            /\ ~ScoreTie(v, k)
            /\ op' = "score_metric"
            /\ args' = [value |-> v, benchmark_key |-> k]
            /\ result' = score_metric(v, k)
            /\ steps' = 1
            /\ UNCHANGED <<files, rng>>

AnalyzeForm ==
    /\ op = "start"
    /\ \E profile \in Profiles :
        /\ ExactProfile(profile)
        /\ op' = "analyze_form"
        /\ args' = profile
        /\ result' = analyze_form(profile)
        /\ steps' = 1
        /\ UNCHANGED <<files, rng>>

NextScorer == ScoreMetric \/ AnalyzeForm

SpecScorer == InitScorer /\ [][NextScorer]_vars

----------------------------------------------------------------------------
(* Claims about the scorer, checked under SpecScorer *)

\* C1: for every benchmark key and every value, the score returned by
\* score_metric lies in [0, 100].
C1_ScoreInRange ==
    op = "score_metric" => (0 <= result.score /\ result.score <= 1000)

\* a cadence so far above the target range that the upper tail has decayed to 0
C1_Witness ==
    /\ op = "score_metric"
    /\ args.benchmark_key = "cadence_spm"
    /\ args.value > BENCHMARKS.cadence_spm.elite.max + 25 * VScale
    /\ result.score = 0

\* C2: vertical oscillation, ground contact time and step-speed-loss are scored
\* with the lower-is-better rule, cadence and HR efficiency with the
\* higher-is-better rule.
C2_DocumentedPolarity ==
    op = "score_metric" =>
        LET k == args.benchmark_key
            v == args.value
        IN  /\ k \in {"vertical_oscillation_cm", "ground_contact_time_ms",
                      "step_speed_loss_percent"}
                  => result.score = RoundTenths(LowerScore(v, BENCHMARKS[k]))
            /\ k \in {"cadence_spm", "hr_efficiency"}
                  => result.score = RoundTenths(HigherScore(v, BENCHMARKS[k]))

\* C3: for every benchmark treated as lower-is-better: 100 inside the elite range
\* or below its minimum; 70 + 30*(v - good_min)/(good_max - good_min) inside the
\* good range but not the elite range; max(30, 70 - 5*(v - good_max)) above the
\* good maximum; never below 30.
C3_LowerRule ==
    (op = "score_metric" /\ LowerIsBetter(BENCHMARKS[args.benchmark_key])) =>
        LET b == BENCHMARKS[args.benchmark_key]
            v == args.value
            inElite == b.elite.min <= v /\ v <= b.elite.max
            inGood == b.good.min <= v /\ v <= b.good.max
            size == b.good.max - b.good.min
        IN  /\ (inElite \/ v < b.elite.min) => result.score = 1000
            /\ (inGood /\ ~inElite) =>
                  result.score = PyRound(10 * (70 * size + 30 * (v - b.good.min)), size)
            /\ v > b.good.max =>
                  result.score = Max(300, PyRound(10 * (7000 - 5 * (v - b.good.max)), 100))
            /\ result.score >= 300

\* C4: for every benchmark treated as higher-is-better, the cases read in order:
\* 100 inside the elite range; otherwise 75 + 25*(v - target_min)/(target_max -
\* target_min) inside the target range, max(30, 75 - 2*(target_min - v)) below
\* the target minimum, max(0, 75 - 3*(v - target_max)) above the target maximum.
\* The score is at least 30 at or below the target maximum and 0 only above it.
C4_HigherRule ==
    (op = "score_metric" /\ ~LowerIsBetter(BENCHMARKS[args.benchmark_key])) =>
        LET b == BENCHMARKS[args.benchmark_key]
            v == args.value
            inElite == b.elite.min <= v /\ v <= b.elite.max
            inTarget == b.target.min <= v /\ v <= b.target.max
            size == b.target.max - b.target.min
        IN  /\ inElite => result.score = 1000
            /\ (inTarget /\ ~inElite) =>
                  result.score = PyRound(10 * (75 * size + 25 * (v - b.target.min)), size)
            /\ (v < b.target.min /\ ~inElite) =>
                  result.score = Max(300, PyRound(10 * (7500 - 2 * (b.target.min - v)), 100))
            /\ (v > b.target.max /\ ~inElite) =>
                  result.score = Max(0, PyRound(10 * (7500 - 3 * (v - b.target.max)), 100))
            /\ v <= b.target.max => result.score >= 300
            /\ result.score < 300 => v > b.target.max

\* a cadence far enough below the target minimum for the floor of 30 to apply
C4_Witness ==
    /\ op = "score_metric"
    /\ args.benchmark_key = "cadence_spm"
    /\ 7500 - 2 * (BENCHMARKS.cadence_spm.target.min - args.value) < 3000
    /\ result.score = 300

\* C5: the status label is determined by the returned score: Elite from 95,
\* Good from 75, Target from 60, Develop below.
C5_StatusFromReturnedScore ==
    op = "score_metric" =>
        result.status = IF result.score >= 950 THEN "Elite"
                        ELSE IF result.score >= 750 THEN "Good"
                        ELSE IF result.score >= 600 THEN "Target"
                        ELSE "Develop"

\* the five weighted sub-scores of a result
FiveScores(r) ==
    { r.metrics.cadence.score, r.metrics.vertical_oscillation.score,
      r.metrics.ground_contact_time.score, r.metrics.step_speed_loss.score,
      r.metrics.hr_efficiency.score }

\* C6: overall_score is the weighted sum of the five sub-scores (weights 0.15,
\* 0.20, 0.20, 0.25, 0.20) rounded to one decimal: between the smallest and the
\* largest of the five, 100.0 when all five are 100, and the same whatever the
\* vertical ratio is.
C6_OverallScore ==
    (op = "analyze_form" /\ result.raised = "") =>
        LET m == result.metrics
            five == FiveScores(result)
        IN  /\ result.overall_score =
                  PyRound(15 * m.cadence.score + 20 * m.vertical_oscillation.score
                          + 20 * m.ground_contact_time.score
                          + 25 * m.step_speed_loss.score
                          + 20 * m.hr_efficiency.score, 100)
            /\ \A s \in five : (\A t \in five : s <= t) => s <= result.overall_score
            /\ \A s \in five : (\A t \in five : s >= t) => s >= result.overall_score
            /\ five = {1000} => result.overall_score = 1000
            /\ \A vr \in RatioValues :
                  analyze_form([args EXCEPT !.avg_vertical_ratio = vr]).overall_score
                      = result.overall_score

\* all five sub-scores are 100 while the vertical ratio scores lower
C6_Witness ==
    /\ op = "analyze_form"
    /\ result.raised = ""
    /\ FiveScores(result) = {1000}
    /\ result.metrics.vertical_ratio.score < 1000
    /\ result.overall_score = 1000

----------------------------------------------------------------------------
(* synthetic_data_generator.py: numpy's generator and interpolate_metric *)

\* the seeds numpy's global generator may start from
MaxSeed == 1
\* the largest standard-normal deviate drawn, in whole standard deviations
MaxDeviate == 1
\* the most weeks and runs per week asked of the generator
MaxWeeks == 16
MaxRuns == 3

\* the next raw output of the generator: a fixed function of seed and position
Draw(g) == (g.seed * 7919 + g.calls * 104729 + 12345) % 1000003

Advance(g, n) == [g EXCEPT !.calls = @ + n]

\* np.random.normal(0, std) is std * StandardNormal / DeviateUnit: the deviates
\* are +-(k + 1/DeviateUnit) for k in 0 .. MaxDeviate, never zero and never whole
DeviateUnit == 37
StandardNormal(g) ==
    LET i == (Draw(g) \div 1000) % (2 * (MaxDeviate + 1))
    IN  (IF i % 2 = 0 THEN 1 ELSE -1) * (DeviateUnit * (i \div 2) + 1)

\* round(np.random.uniform(lo, hi), k) on the grid of the rounded values
Uniform(g, lo, hi) == lo + (Draw(g) % (hi - lo + 1))

\* the loop counting weeks from 0: range(weeks) in place of range(1, weeks + 1)
ProgressFromZero(current, target, weeks, week) ==
    current * weeks + (target - current) * (week - 1)
\* value * weeks, for value = current + (target - current) * week / weeks
Progress(current, target, weeks, week) ==
    current * weeks + (target - current) * week

\* the even number of hundredths at or just below value
EvenPart(current, target, weeks, week) ==
    2 * (Progress(current, target, weeks, week) \div (2 * weeks))

\* value_with_noise of one week, less EvenPart, in hundredths and as the
\* fraction n / (2 * VScale * DeviateUnit * weeks):
\*   noise_std = noise_level * |current - target| * (1 - week / weeks * 0.5)
\*   noise     = noise_std * z / DeviateUnit
\* noise_level is in hundredths (0.08 is 8)
\* a noise that grows with the weeks: (1 + progress * 0.5) in place of (1 - ...)
noise_std_growing(current, target, weeks, noise_level, week) ==
    Frac(noise_level * Abs(current - target) * (2 * weeks + week), 2 * VScale * weeks)

\* noise_std of one week, in hundredths of a unit:
\*   noise_level * abs(current - target) * (1 - progress * 0.5), progress = week / weeks
noise_std(current, target, weeks, noise_level, week) ==
    Frac(noise_level * Abs(current - target) * (2 * weeks - week), 2 * VScale * weeks)

NoisyValue(current, target, weeks, noise_level, week, z) ==
    LET std == noise_std(current, target, weeks, noise_level, week)
    IN  Frac(2 * VScale * DeviateUnit * (Progress(current, target, weeks, week) % (2 * weeks))
                 + z * std.n,
             DeviateUnit * std.d)

\* the deviate np.random.normal draws in `week` of a call that starts at g
WeekDeviate(g, week) == StandardNormal(Advance(g, week - 1))

\* interpolate_metric(current, target, weeks, noise_level): the list of
\* round(value_with_noise, 2), one per week; the call draws `weeks` deviates
interpolate_metric(current, target, weeks, noise_level, g) ==
    [ week \in 1 .. weeks |->
        LET x == NoisyValue(current, target, weeks, noise_level, week,
                            WeekDeviate(g, week))
        IN  EvenPart(current, target, weeks, week) + PyRound(x.n, x.d) ]

\* some week's exact value sits on a rounding tie of round(value, 2)
InterpolationTie(current, target, weeks, noise_level, g) ==
    \E week \in 1 .. weeks :
        LET x == NoisyValue(current, target, weeks, noise_level, week,
                            WeekDeviate(g, week))
        IN  IsTie(x.n, x.d)

\* the float computation of the noiseless interpolation is exact: quarters of a
\* unit interpolated over a power-of-two number of weeks
FloatExact(current, target, weeks, noise_level) ==
    /\ noise_level = 0 \/ current = target
    /\ weeks \in {1, 2, 4, 8, 16}
    /\ current % 25 = 0
    /\ target % 25 = 0

----------------------------------------------------------------------------
(* target_profiles.py: the archetypes (the ideal value of each metric) *)

Ideal(v) == [ideal |-> v]

TARGET_PROFILES ==
    [ steady_runner |->
        [ name |-> "Steady Runner",
          metrics |-> [ cadence_spm |-> Ideal(16000),
                        vertical_oscillation_cm |-> Ideal(750),
                        vertical_ratio |-> Ideal(750),
                        ground_contact_time_ms |-> Ideal(25500),
                        step_speed_loss_percent |-> Ideal(550),
                        hr_efficiency |-> Ideal(8000) ] ],
      efficient_runner |->
        [ name |-> "Efficient Runner",
          metrics |-> [ cadence_spm |-> Ideal(17500),
                        vertical_oscillation_cm |-> Ideal(720),
                        vertical_ratio |-> Ideal(720),
                        ground_contact_time_ms |-> Ideal(24500),
                        step_speed_loss_percent |-> Ideal(450),
                        hr_efficiency |-> Ideal(8300) ] ],
      balanced_runner |->
        [ name |-> "Balanced Runner",
          metrics |-> [ cadence_spm |-> Ideal(17000),
                        vertical_oscillation_cm |-> Ideal(800),
                        vertical_ratio |-> Ideal(800),
                        ground_contact_time_ms |-> Ideal(26000),
                        step_speed_loss_percent |-> Ideal(600),
                        hr_efficiency |-> Ideal(8100) ] ] ]

\* targets.items(): the archetypes in the order of the dict
ProfileOrder == <<"steady_runner", "efficient_runner", "balanced_runner">>

----------------------------------------------------------------------------
(* synthetic_data_generator.py: generate_synthetic_progression *)

\* metric_mappings, in the order of the dict
metric_mappings ==
    << [ metric |-> "cadence_spm", current_key |-> "avg_cadence",
         target_key |-> "cadence_spm" ],
       [ metric |-> "vertical_oscillation_cm",
         current_key |-> "avg_vertical_oscillation",
         target_key |-> "vertical_oscillation_cm" ],
       [ metric |-> "ground_contact_time_ms",
         current_key |-> "avg_ground_contact_time",
         target_key |-> "ground_contact_time_ms" ],
       [ metric |-> "step_speed_loss_pct", current_key |-> "avg_step_speed_loss_pct",
         target_key |-> "step_speed_loss_percent" ],
       [ metric |-> "heart_rate_bpm", current_key |-> "avg_hr",
         target_key |-> "hr_efficiency" ] >>

\* the noise_level generate_synthetic_progression passes, in hundredths
StageNoiseLevel == 8

\* current_key in current and target_key in target_profile["metrics"]
Mapped(current, target_profile, j) ==
    /\ metric_mappings[j].current_key \in DOMAIN current
    /\ metric_mappings[j].target_key \in DOMAIN target_profile.metrics

MappedBefore(current, target_profile, j) ==
    Cardinality({ i \in 1 .. (j - 1) : Mapped(current, target_profile, i) })

MappedCount(current, target_profile) ==
    MappedBefore(current, target_profile, Len(metric_mappings) + 1)

MappingOf(metric) ==
    CHOOSE j \in DOMAIN metric_mappings : metric_mappings[j].metric = metric

\* progressions: metric -> its interpolated list, each drawn after the previous one
Progressions(current, target_profile, num_weeks, g) ==
    [ metric \in { metric_mappings[j].metric :
                     j \in { i \in DOMAIN metric_mappings :
                               Mapped(current, target_profile, i) } } |->
        LET j == MappingOf(metric)
            m == metric_mappings[j]
        IN  interpolate_metric(current[m.current_key],
                               target_profile.metrics[m.target_key].ideal,
                               num_weeks, StageNoiseLevel,
                               Advance(g, num_weeks * MappedBefore(current, target_profile, j))) ]

\* run_data.get(metric, default) after the progressive metrics were added
RunValue(progressions, metric, week, default) ==
    IF metric \in DOMAIN progressions THEN progressions[metric][week] ELSE default

\* a fraction with a positive denominator
Normal(x) == IF x.d < 0 THEN Frac(-x.n, -x.d) ELSE x
FracLess(x, y) == ~FracGeq(Normal(x), Normal(y))

\* improvement = (cadence - first) / (last - first + 0.001), cadences in hundredths
Improvement(progressions, week) ==
    LET cadence == progressions.cadence_spm
    IN  Frac(10 * (cadence[week] - cadence[1]),
             10 * (cadence[Len(cadence)] - cadence[1]) + 1)

\* the labelling with thresholds at one third and two thirds
ImprovementPhaseThirds(improvement) ==
    IF FracLess(improvement, Frac(1, 3)) THEN "early"
    ELSE IF FracLess(improvement, Frac(2, 3)) THEN "mid"
    ELSE "advanced"

ImprovementPhase(improvement) ==
    IF FracLess(improvement, Frac(33, 100)) THEN "early"
    ELSE IF FracLess(improvement, Frac(67, 100)) THEN "mid"
    ELSE "advanced"

\* 200 + (cadence - 160) * 2 + (heart rate - 140) * 0.5, as a fraction of watts
EstimatedPower(cadence, heart_rate) ==
    Frac(200 * 200 + 4 * (cadence - 16000) + (heart_rate - 14000), 200)

\* the training effect without its clip to [1.0, 5.0]
TrainingEffectUnclipped(heart_rate) == Frac(15 * 200 + (heart_rate - 14000), 200)

\* min(5.0, max(1.0, 1.5 + (heart rate - 140) * 0.05)), as a fraction of tenths
TrainingEffect(heart_rate) ==
    FracMin(Frac(50, 1), FracMax(Frac(10, 1), Frac(15 * 200 + (heart_rate - 14000), 200)))

\* one row of the table: the `day`-th run (from 0) of `week`, drawn at g
SyntheticRun(progressions, runs_per_week, week, day, g) ==
    LET distance_km == Uniform(g, 400, 1200)
        duration_min == Uniform(Advance(g, 1), 300, 800)
        cadence == RunValue(progressions, "cadence_spm", week, 17000)
        heart_rate == RunValue(progressions, "heart_rate_bpm", week, 15000)
        power == EstimatedPower(cadence, heart_rate)
        te == TrainingEffect(heart_rate)
    IN  [ activity_id |-> 1000 + (week - 1) * runs_per_week + day + 1,
          week |-> week,
          day |-> day + 1,
          date |-> [year |-> 2025, month |-> (week % 52) + 1, day |-> (day + 1) * 2],
          distance_km |-> distance_km,
          duration_min |-> duration_min,
          metrics |-> [ metric \in DOMAIN progressions |-> progressions[metric][week] ],
          pace_min_km |-> PyRound(1000 * duration_min, distance_km),
          power_watts |-> PyRound(power.n, power.d),
          aerobic_te |-> PyRound(te.n, te.d),
          improvement_phase |-> ImprovementPhase(Improvement(progressions, week)) ]

\* the inner loop starting at day 1: range(1, runs_per_week)
SyntheticRunsFromDayOne(progressions, num_weeks, runs_per_week, g) ==
    [ i \in 1 .. (num_weeks * (runs_per_week - 1)) |->
        SyntheticRun(progressions, runs_per_week,
                     ((i - 1) \div (runs_per_week - 1)) + 1,
                     ((i - 1) % (runs_per_week - 1)) + 1,
                     Advance(g, 2 * (i - 1))) ]

\* the rows in the order they are appended: week by week, day by day
SyntheticRuns(progressions, num_weeks, runs_per_week, g) ==
    [ i \in 1 .. (num_weeks * runs_per_week) |->
        SyntheticRun(progressions, runs_per_week,
                     ((i - 1) \div runs_per_week) + 1, (i - 1) % runs_per_week,
                     Advance(g, 2 * (i - 1))) ]

\* the draws one call of generate_synthetic_progression makes
\* the draws a call makes: num_weeks normal deviates for each interpolated metric
\* and two uniform ones for each row; the KeyError of line 127 rises in the first
\* row, after its two uniform draws
DrawsPerTable(current, target_profile, num_weeks, runs_per_week) ==
    IF /\ num_weeks * runs_per_week > 0
       /\ "cadence_spm" \notin DOMAIN Progressions(current, target_profile, num_weeks, FreshRng)
    THEN num_weeks * MappedCount(current, target_profile) + 2
    ELSE num_weeks * MappedCount(current, target_profile) + 2 * num_weeks * runs_per_week

\* generate_synthetic_progression(current, target_profile, num_weeks, runs_per_week):
\* the table, or the KeyError of line 127 when cadence was not interpolated
generate_synthetic_progression(current, target_profile, num_weeks, runs_per_week, g) ==
    LET progressions == Progressions(current, target_profile, num_weeks, g)
        rows_start == Advance(g, num_weeks * MappedCount(current, target_profile))
    IN  IF num_weeks * runs_per_week > 0 /\ "cadence_spm" \notin DOMAIN progressions
        THEN [ raised |-> "KeyError" ]
        ELSE [ raised |-> "",
               rows |-> SyntheticRuns(progressions, num_weeks, runs_per_week, rows_start) ]

\* some rounded field of the table sits on a rounding tie the float computation
\* does not represent exactly
TableTie(current, target_profile, num_weeks, runs_per_week, g) ==
    LET t == generate_synthetic_progression(current, target_profile, num_weeks,
                                            runs_per_week, g)
    IN  \/ \E j \in DOMAIN metric_mappings :
              /\ Mapped(current, target_profile, j)
              /\ LET m == metric_mappings[j]
                     c == current[m.current_key]
                     i == target_profile.metrics[m.target_key].ideal
                 IN  /\ InterpolationTie(c, i, num_weeks, StageNoiseLevel,
                            Advance(g, num_weeks * MappedBefore(current, target_profile, j)))
                     /\ ~FloatExact(c, i, num_weeks, StageNoiseLevel)
        \/ /\ t.raised = ""
           /\ \E r \in DOMAIN t.rows :
                 LET row == t.rows[r]
                     cadence == IF "cadence_spm" \in DOMAIN row.metrics
                                THEN row.metrics.cadence_spm ELSE 17000
                     heart_rate == IF "heart_rate_bpm" \in DOMAIN row.metrics
                                   THEN row.metrics.heart_rate_bpm ELSE 15000
                     power == EstimatedPower(cadence, heart_rate)
                     te == TrainingEffect(heart_rate)
                 IN  \/ IsTie(1000 * row.duration_min, row.distance_km)
                     \/ IsTie(power.n, power.d)
                     \/ IsTie(te.n, te.d)

----------------------------------------------------------------------------
(* synthetic_data_generator.py: generate_all_profiles and the files it writes *)

\* the file system: file name -> content
Exists(fs, name) == name \in DOMAIN fs
Write(fs, name, content) ==
    [ n \in DOMAIN fs \cup {name} |-> IF n = name THEN content ELSE fs[n] ]

\* SYNTHETIC_DIR / f"synthetic_{profile_key}.csv"
SyntheticCsv(profile_key) ==
    CASE profile_key = "steady_runner" -> "synthetic/synthetic_steady_runner.csv"
      [] profile_key = "efficient_runner" -> "synthetic/synthetic_efficient_runner.csv"
      [] profile_key = "balanced_runner" -> "synthetic/synthetic_balanced_runner.csv"

\* SYNTHETIC_DIR / "synthetic_all_profiles.csv"
MasterCsv == "synthetic/synthetic_all_profiles.csv"

\* the arguments generate_all_profiles passes for num_weeks and runs_per_week
ProfileWeeks == 16
ProfileRunsPerWeek == 3

\* targets.items() as a sequence of keys
TargetKeys(targets) == SelectSeq(ProfileOrder, LAMBDA k : k \in DOMAIN targets)

\* the state of generate_all_profiles after the first n archetypes of its loop:
\* the results so far, the files written, the generator, an exception if one rose
RECURSIVE AllProfilesLoop(_, _, _, _, _, _)
AllProfilesLoop(current, targets, output_csv, fs, g, n) ==
    IF n = 0 THEN [ raised |-> "", results |-> <<>>, files |-> fs, rng |-> g ]
    ELSE
        LET before == AllProfilesLoop(current, targets, output_csv, fs, g, n - 1)
            profile_key == TargetKeys(targets)[n]
            profile == targets[profile_key]
            df == generate_synthetic_progression(current, profile, ProfileWeeks,
                                                 ProfileRunsPerWeek, before.rng)
        IN  IF before.raised # "" THEN before
            ELSE IF df.raised # ""
                 THEN [ before EXCEPT
                          !.raised = df.raised,
                          !.rng = Advance(@, DrawsPerTable(current, profile, ProfileWeeks,
                                                           ProfileRunsPerWeek)) ]
            ELSE [ raised |-> "",
                   results |-> Append(before.results,
                                      [ profile_key |-> profile_key,
                                        profile_name |-> profile.name,
                                        num_runs |-> Len(df.rows),
                                        weeks |-> 16,
                                        dataframe |-> df.rows ]),
                   files |-> IF output_csv
                             THEN Write(before.files, SyntheticCsv(profile_key), df.rows)
                             ELSE before.files,
                   rng |-> Advance(before.rng,
                                   DrawsPerTable(current, profile, ProfileWeeks,
                                                 ProfileRunsPerWeek)) ]

\* generate_all_profiles(current, targets, output_csv), lines 137-159
generate_all_profiles(current, targets, output_csv, fs, g) ==
    AllProfilesLoop(current, targets, output_csv, fs, g, Len(TargetKeys(targets)))

\* one of the tables of a generate_all_profiles call hits an inexact rounding tie
AllProfilesTie(current, targets, g) ==
    \E n \in 1 .. Len(TargetKeys(targets)) :
        TableTie(current, targets[TargetKeys(targets)[n]], ProfileWeeks,
                 ProfileRunsPerWeek,
                 AllProfilesLoop(current, targets, FALSE, NoFiles, g, n - 1).rng)

InterpolationInputs ==
    { [ current |-> c, target |-> t, weeks |-> w, noise_level |-> n ] :
        c \in {16000, 16550, 920, 27000}, t \in {17500, 16000, 720, 24500},
        w \in 0 .. MaxWeeks, n \in {0, 5, 8} }

Seeds == 0 .. MaxSeed

\* running profiles as create_running_profile builds them (the fields read here)
CurrentProfiles ==
    { [ avg_cadence |-> 16000, avg_vertical_oscillation |-> 920,
        avg_vertical_ratio |-> 900, avg_ground_contact_time |-> 27000,
        avg_step_speed_loss_pct |-> 750, avg_hr |-> 15000, max_hr |-> 20000 ],
      [ avg_cadence |-> 17000, avg_vertical_oscillation |-> 830,
        avg_vertical_ratio |-> 810, avg_ground_contact_time |-> 26300,
        avg_step_speed_loss_pct |-> 640, avg_hr |-> 14500, max_hr |-> 0 ],
      [ avg_cadence |-> 16300, avg_vertical_oscillation |-> 920,
        avg_vertical_ratio |-> 900, avg_ground_contact_time |-> 27000,
        avg_step_speed_loss_pct |-> 750, avg_hr |-> 15000, max_hr |-> 20000 ] }

ActivitiesCsv == "Activities.csv"
RunningProfileJson == "running_profile.json"
TargetProfilesJson == "target_profiles.json"

\* an Activities.csv, held as what the aggregator reduces it to
ActivityTables ==
    { [ empty |-> TRUE ] } \cup { [ empty |-> FALSE, profile |-> p ] : p \in CurrentProfiles }

\* a target_profiles.json whose first archetype has lost its cadence target
TargetsWithoutCadence ==
    [ TARGET_PROFILES EXCEPT
        !.steady_runner.metrics = [ k \in DOMAIN @ \ {"cadence_spm"} |-> @[k] ] ]

\* the disks a run may start from: none of the generator's outputs exists yet
DiskWith(activities, profile, targets) ==
    [ n \in { ActivitiesCsv : x \in activities } \cup { RunningProfileJson : x \in profile }
            \cup { TargetProfilesJson : x \in targets } |->
        IF n = ActivitiesCsv THEN CHOOSE x \in activities : TRUE
        ELSE IF n = RunningProfileJson THEN CHOOSE x \in profile : TRUE
        ELSE CHOOSE x \in targets : TRUE ]

InitialDisks ==
    { DiskWith(a, p, t) :
        a \in { {} } \cup { {x} : x \in ActivityTables },
        p \in { {} } \cup { {x} : x \in CurrentProfiles },
        t \in { {}, {TARGET_PROFILES}, {TargetsWithoutCadence} } }

\* how many scripts one behaviour runs
MaxSteps == 2

InitGenerator ==
    /\ op = "start"
    /\ args = <<>>
    /\ result = <<>>
    /\ files \in InitialDisks
    /\ rng \in { [seed |-> s, calls |-> 0] : s \in Seeds }
    /\ steps = 0

InterpolateMetric ==
    /\ op = "start"
    /\ files = NoFiles
    /\ \E a \in InterpolationInputs :
        /\ InterpolationTie(a.current, a.target, a.weeks, a.noise_level, rng)
              => FloatExact(a.current, a.target, a.weeks, a.noise_level)
        /\ op' = "interpolate_metric"
        /\ args' = a
        /\ result' = interpolate_metric(a.current, a.target, a.weeks, a.noise_level, rng)
        /\ rng' = Advance(rng, a.weeks)
        /\ steps' = 1
        /\ UNCHANGED files

GenerateSyntheticProgression ==
    /\ op = "start"
    /\ files = NoFiles
    /\ \E current \in CurrentProfiles, key \in DOMAIN TARGET_PROFILES,
          num_weeks \in 0 .. MaxWeeks, runs_per_week \in 0 .. MaxRuns :
        /\ ~TableTie(current, TARGET_PROFILES[key], num_weeks, runs_per_week, rng)
        /\ op' = "generate_synthetic_progression"
        /\ args' = [ current |-> current, target_profile |-> key,
                     num_weeks |-> num_weeks, runs_per_week |-> runs_per_week ]
        /\ result' = generate_synthetic_progression(current, TARGET_PROFILES[key],
                                                    num_weeks, runs_per_week, rng)
        /\ rng' = Advance(rng, DrawsPerTable(current, TARGET_PROFILES[key],
                                             num_weeks, runs_per_week))
        /\ steps' = 1
        /\ UNCHANGED files

GenerateAllProfiles ==
    /\ op = "start"
    /\ files = NoFiles
    /\ \E current \in CurrentProfiles, output_csv \in BOOLEAN :
        /\ ~AllProfilesTie(current, TARGET_PROFILES, rng)
        /\ LET done == generate_all_profiles(current, TARGET_PROFILES, output_csv,
                                             files, rng)
           IN  /\ op' = "generate_all_profiles"
               /\ args' = [ current |-> current, output_csv |-> output_csv ]
               /\ result' = [ raised |-> done.raised, results |-> done.results ]
               /\ files' = done.files
               /\ rng' = done.rng
               /\ steps' = 1

RECURSIVE MasterRows(_, _)
\* master_df: the tables concatenated, each row tagged with its profile name
MasterRows(results, n) ==
    IF n = 0 THEN <<>>
    ELSE MasterRows(results, n - 1)
         \o [ i \in 1 .. Len(results[n].dataframe) |->
                [ run |-> results[n].dataframe[i],
                  target_profile |-> results[n].profile_name ] ]

\* python synthetic_data_generator.py: the __main__ block, lines 211-249
GeneratorMain ==
    /\ steps < MaxSteps
    /\ op' = "generator_main"
    /\ args' = <<>>
    /\ steps' = steps + 1
    /\ IF ~Exists(files, RunningProfileJson) \/ ~Exists(files, TargetProfilesJson)
       THEN /\ result' = [ exit |-> 1, raised |-> "", generated |-> FALSE ]
            /\ UNCHANGED <<files, rng>>
       ELSE /\ ~AllProfilesTie(files[RunningProfileJson], files[TargetProfilesJson], rng)
            /\ LET done == generate_all_profiles(files[RunningProfileJson],
                                                 files[TargetProfilesJson], TRUE,
                                                 files, rng)
                   master_df == MasterRows(done.results, Len(done.results))
               IN  /\ rng' = done.rng
                   /\ IF done.raised # ""
                      THEN /\ result' = [ exit |-> 1, raised |-> done.raised,
                                          generated |-> FALSE ]
                           /\ files' = done.files
                      ELSE /\ result' = [ exit |-> 0, raised |-> "",
                                          generated |-> TRUE ]
                           /\ files' = Write(done.files, MasterCsv, master_df)

\* a phase whose exception is not caught
PhaseOutcomeUncaught(raised) == IF raised # "" THEN "crashed" ELSE "done"

\* try: ... except Exception: print("... skipped"), lines 49-57 and 61-68
PhaseOutcome(raised) == IF raised # "" THEN "skipped" ELSE "done"

\* run_full_pipeline() of the standalone pipeline script
RunFullPipeline ==
    /\ steps < MaxSteps
    /\ op' = "run_full_pipeline"
    /\ args' = <<>>
    /\ steps' = steps + 1
    /\ IF ~Exists(files, ActivitiesCsv) \/ files[ActivitiesCsv].empty
       THEN \* load_activities() returned an empty table: return before Phase 2
            /\ result' = [ completed |-> FALSE, form_analysis |-> "not_run",
                           synthetic |-> "not_run", generated |-> FALSE ]
            /\ UNCHANGED <<files, rng>>
       ELSE LET profile == files[ActivitiesCsv].profile
                saved == Write(files, RunningProfileJson, profile)
                form == PhaseOutcome(analyze_form(profile).raised)
                loaded == Exists(saved, TargetProfilesJson)
                done == generate_all_profiles(profile, saved[TargetProfilesJson], TRUE,
                                              saved, rng)
            IN  IF ~loaded
                THEN /\ result' = [ completed |-> TRUE, form_analysis |-> form,
                                    synthetic |-> "not_run", generated |-> FALSE ]
                     /\ files' = saved
                     /\ UNCHANGED rng
                ELSE /\ ~AllProfilesTie(profile, saved[TargetProfilesJson], rng)
                     /\ result' = [ completed |-> TRUE, form_analysis |-> form,
                                    synthetic |-> PhaseOutcome(done.raised),
                                    generated |-> done.raised = "" ]
                     /\ files' = done.files
                     /\ rng' = done.rng

\* load_training_data() of train_model.py
LoadTrainingData ==
    /\ steps < MaxSteps
    /\ op' = "load_training_data"
    /\ args' = <<>>
    /\ steps' = steps + 1
    /\ result' = IF ~Exists(files, MasterCsv)
                 THEN [ raised |-> "FileNotFoundError", generated |-> FALSE ]
                 ELSE [ raised |-> "", loaded |-> Len(files[MasterCsv]),
                        generated |-> FALSE ]
    /\ UNCHANGED <<files, rng>>

NextGenerator ==
    \/ InterpolateMetric
    \/ GenerateSyntheticProgression
    \/ GenerateAllProfiles
    \/ GeneratorMain
    \/ RunFullPipeline
    \/ LoadTrainingData

SpecGenerator == InitGenerator /\ [][NextGenerator]_vars

----------------------------------------------------------------------------
(* Claims about the generator, checked under SpecGenerator *)

\* C7 as stated: with noise_level = 0 the call returns exactly `weeks` values,
\* value(week) = current + (target - current) * week / weeks, the last one the
\* target; 160 -> 175 over 16 weeks gives value(8) = 167.5 and value(16) = 175.
C7_ExactInterpolation ==
    (op = "interpolate_metric" /\ args.noise_level = 0) =>
        /\ Len(result) = args.weeks
        /\ \A week \in 1 .. args.weeks :
              result[week] * args.weeks
                  = args.current * args.weeks + (args.target - args.current) * week
        /\ args.weeks > 0 => result[args.weeks] = args.target
        /\ (args.current = 16000 /\ args.target = 17500 /\ args.weeks = 16)
              => (result[8] = 16750 /\ result[16] = 17500)

\* C7 amended: each value is that interpolation rounded to two decimals.
C7_RoundedInterpolation ==
    (op = "interpolate_metric" /\ args.noise_level = 0) =>
        /\ Len(result) = args.weeks
        /\ \A week \in 1 .. args.weeks :
              result[week] = PyRound(args.current * args.weeks
                                       + (args.target - args.current) * week,
                                     args.weeks)
        /\ args.weeks > 0 => result[args.weeks] = args.target
        /\ (args.current = 16000 /\ args.target = 17500 /\ args.weeks = 16)
              => (result[8] = 16750 /\ result[16] = 17500)

\* the spec's example, whose first week (160.9375) is not a two-decimal number
C7_Witness ==
    /\ op = "interpolate_metric"
    /\ args = [current |-> 16000, target |-> 17500, weeks |-> 16, noise_level |-> 0]
    /\ result[1] = 16094
    /\ result[8] = 16750
    /\ result[16] = 17500

\* rows is one table of num_weeks * runs_per_week runs: one run for each
\* (week, day), the runs of one week carrying the same progressed metric values
IsProgressionTable(rows, num_weeks, runs_per_week) ==
    /\ Len(rows) = num_weeks * runs_per_week
    /\ \A w \in 1 .. num_weeks, d \in 1 .. runs_per_week :
          Cardinality({ i \in DOMAIN rows : rows[i].week = w /\ rows[i].day = d }) = 1
    /\ \A i, j \in DOMAIN rows :
          rows[i].week = rows[j].week => rows[i].metrics = rows[j].metrics

RECURSIVE TotalRuns(_, _)
TotalRuns(results, n) ==
    IF n = 0 THEN 0 ELSE TotalRuns(results, n - 1) + Len(results[n].dataframe)

\* C8: generate_synthetic_progression returns num_weeks * runs_per_week rows, one
\* for each (week, day) with week in 1..num_weeks and day in 1..runs_per_week, the
\* rows of one week sharing their progressed metric values; generate_all_profiles
\* returns one such 16 x 3 table per archetype, archetypes * 16 * 3 rows in all.
C8_OneRunPerWeekAndDay ==
    /\ (op = "generate_synthetic_progression" /\ result.raised = "") =>
          IsProgressionTable(result.rows, args.num_weeks, args.runs_per_week)
    /\ (op = "generate_all_profiles" /\ result.raised = "") =>
          /\ { result.results[n].profile_key : n \in DOMAIN result.results }
                = DOMAIN TARGET_PROFILES
          /\ Len(result.results) = Cardinality(DOMAIN TARGET_PROFILES)
          /\ \A n \in DOMAIN result.results :
                IsProgressionTable(result.results[n].dataframe, 16, 3)
          /\ TotalRuns(result.results, Len(result.results))
                = Cardinality(DOMAIN TARGET_PROFILES) * 16 * 3

\* a 16 x 3 table: 48 rows, the three runs of week 1 alike, week 2 different
C8_Witness ==
    /\ op = "generate_synthetic_progression"
    /\ args.num_weeks = 16
    /\ args.runs_per_week = 3
    /\ result.raised = ""
    /\ Len(result.rows) = 48
    /\ result.rows[1].metrics = result.rows[3].metrics
    /\ result.rows[3].metrics # result.rows[4].metrics
    /\ result.rows[48].week = 16
    /\ result.rows[48].day = 3

\* C9 as stated: whenever generate_all_profiles has run with its output on, alone
\* or from a script, the combined dataset synthetic_all_profiles.csv exists, and
\* once the per-archetype tables are on disk load_training_data finds it.
C9_MasterDatasetEmitted ==
    /\ ( \/ (op = "generate_all_profiles" /\ args.output_csv /\ result.raised = "")
         \/ (op \in {"generator_main", "run_full_pipeline"} /\ result.generated) )
          => Exists(files, MasterCsv)
    /\ ( /\ op = "load_training_data"
         /\ \A k \in DOMAIN TARGET_PROFILES : Exists(files, SyntheticCsv(k)) )
          => result.raised = ""

----------------------------------------------------------------------------
(* models/predict_form_gaps.py: safe_float, parse_garmin_pace, predict_new_run *)

\* The predictor's numbers are integer counts of 1/PScale: hundredths and the
\* sixtieths of a pace "m:ss" are both whole in it (5.05 is 1515, "5:51" is 1755).
PScale == 300
Hundredths(h) == h * (PScale \div 100)

\* the cells of an activity row
Num(v) == [kind |-> "num", v |-> v]                \* a number, or its text
NaN == [kind |-> "nan"]                            \* an empty CSV cell
None == [kind |-> "none"]
Text == [kind |-> "text"]                          \* text that is no number: "--"
Empty == [kind |-> "empty"]                        \* the empty string
Pace(m, sec) == [kind |-> "pace", minutes |-> m, seconds |-> sec]   \* "m:ss"
Clock(h, m, sec) ==                                \* "h:mm:ss"
    [kind |-> "clock", hours |-> h, minutes |-> m, seconds |-> sec]
Garbled == [kind |-> "garbled"]                    \* a colon, a part no integer: "5:3x"

\* latest_row.get(column, default)
Get(latest_row, column, default) ==
    IF column \in DOMAIN latest_row THEN latest_row[column] ELSE default

\* safe_float(value), lines 140-145: float(value), 0.0 for None and for whatever
\* float() rejects; float() keeps a NaN
safe_float(value) ==
    CASE value.kind = "num" -> value
      [] value.kind = "nan" -> NaN
      [] OTHER -> Num(0)

\* parse_garmin_pace(pace_str), lines 16-26: the minutes per km, or the
\* ValueError of float() on text without a colon
parse_garmin_pace(pace_str) ==
    CASE pace_str.kind \in {"nan", "none"} -> [raised |-> "", value |-> Hundredths(550)]
      [] pace_str.kind = "pace" ->
            [raised |-> "",
             value |-> pace_str.minutes * PScale + pace_str.seconds * (PScale \div 60)]
      [] pace_str.kind = "clock" ->
            \* parts[0] and parts[1] of three parts: the hours and the minutes
            [raised |-> "",
             value |-> pace_str.hours * PScale + pace_str.minutes * (PScale \div 60)]
      [] pace_str.kind = "num" -> [raised |-> "", value |-> pace_str.v]
      [] pace_str.kind = "empty" -> [raised |-> "", value |-> Hundredths(550)]
      [] OTHER -> [raised |-> "ValueError"]

\* the ladder with exclusive upper boundaries
DistanceBucketExclusive(distance_km) ==
    IF distance_km.kind = "nan" THEN "Marathon"
    ELSE IF distance_km.v < 7 * PScale THEN "5K"
    ELSE IF distance_km.v < 15 * PScale THEN "10K"
    ELSE IF distance_km.v < 25 * PScale THEN "Half"
    ELSE "Marathon"
\* the branch the if / elif ladder of lines 95-117 takes; every comparison with a
\* NaN is false
DistanceBucket(distance_km) ==
    IF distance_km.kind = "nan" THEN "Marathon"
    ELSE IF distance_km.v <= 7 * PScale THEN "5K"
    ELSE IF distance_km.v <= 15 * PScale THEN "10K"
    ELSE IF distance_km.v <= 25 * PScale THEN "Half"
    ELSE "Marathon"

\* the base elite_targets, lines 85-92
BaseTargets ==
    [ cadencespm |-> Hundredths(17500), verticaloscillationcm |-> Hundredths(720),
      groundcontacttimems |-> Hundredths(24500), stepspeedlosspct |-> Hundredths(450),
      heartratebpm |-> Hundredths(15500), paceminkm |-> Hundredths(505) ]

\* dict.update
Update(d, changes) ==
    [ k \in DOMAIN d |-> IF k \in DOMAIN changes THEN changes[k] ELSE d[k] ]

\* elite_targets after the ladder
EliteTargets(distance_km) ==
    CASE DistanceBucket(distance_km) = "5K" ->
            Update(BaseTargets, [ paceminkm |-> Hundredths(420),
                                  cadencespm |-> Hundredths(18000),
                                  heartratebpm |-> Hundredths(16500) ])
      [] DistanceBucket(distance_km) = "10K" ->
            Update(BaseTargets, [ paceminkm |-> Hundredths(435),
                                  cadencespm |-> Hundredths(17800),
                                  heartratebpm |-> Hundredths(16200) ])
      [] DistanceBucket(distance_km) = "Half" ->
            Update(BaseTargets, [ paceminkm |-> Hundredths(455),
                                  cadencespm |-> Hundredths(17500),
                                  heartratebpm |-> Hundredths(15800) ])
      [] OTHER -> BaseTargets

PaceCategory(distance_km) ==
    CASE DistanceBucket(distance_km) = "5K" -> "5K Training"
      [] DistanceBucket(distance_km) = "10K" -> "10K Training"
      [] DistanceBucket(distance_km) = "Half" -> "Half Training"
      [] OTHER -> "Marathon Training"

\* col_map, and the feature of the same index
col_map ==
    << "cadencespm", "verticaloscillationcm", "groundcontacttimems",
       "stepspeedlosspct", "heartratebpm", "paceminkm" >>

\* profile, lines 58-65, without the pace
FormProfile(latest_row) ==
    [ avgcadence |-> safe_float(Get(latest_row, "Avg Run Cadence", Num(160 * PScale))),
      avgverticaloscillation |->
          safe_float(Get(latest_row, "Avg Vertical Oscillation", Num(8 * PScale))),
      avggroundcontacttime |->
          safe_float(Get(latest_row, "Avg Ground Contact Time", Num(260 * PScale))),
      avgstepspeedlosspct |->
          safe_float(Get(latest_row, "Avg Step Speed Loss %", Num(Hundredths(550)))),
      avghr |-> safe_float(Get(latest_row, "Avg HR", Num(155 * PScale))) ]

\* features, lines 68-75: floats, any of the first five possibly a NaN
Features(latest_row) ==
    LET profile == FormProfile(latest_row)
    IN  << profile.avgcadence, profile.avgverticaloscillation,
           profile.avggroundcontacttime, profile.avgstepspeedlosspct,
           profile.avghr,
           Num(parse_garmin_pace(Get(latest_row, "Avg Pace", Pace(5, 30))).value) >>

\* float arithmetic with NaN: x - t and abs(x) of a NaN are NaN, x < y is false
\* as soon as one side is a NaN
FloatMinus(x, t) == IF x.kind = "nan" THEN NaN ELSE Num(x.v - t)
FloatAbs(x) == IF x.kind = "nan" THEN NaN ELSE Num(Abs(x.v))
FloatLt(x, y) == x.kind = "num" /\ y.kind = "num" /\ x.v < y.v

\* gaps, lines 120-129
Gaps(features, elite_targets) ==
    [ col \in { col_map[i] : i \in DOMAIN col_map } |->
        LET i == CHOOSE j \in DOMAIN col_map : col_map[j] = col
        IN  [ current |-> features[i], target |-> elite_targets[col],
              gap |-> FloatMinus(features[i], elite_targets[col]) ] ]

\* list.sort of CPython on a short list (fewer than 64 items) of [key, value]
\* items: the leading run is found and, if strictly descending, reversed; the
\* rest is inserted one by one by binary search; only key < key is ever asked.
\* With reverse=True the list is reversed before and after.
Reverse(s) == [ i \in 1 .. Len(s) |-> s[Len(s) + 1 - i] ]

RunDescending(s) == Len(s) >= 2 /\ FloatLt(s[2].key, s[1].key)

RunLength(s) ==
    IF Len(s) < 2 THEN Len(s)
    ELSE CHOOSE n \in 2 .. Len(s) :
            /\ \A j \in 3 .. n : FloatLt(s[j].key, s[j - 1].key) = RunDescending(s)
            /\ n < Len(s) => FloatLt(s[n + 1].key, s[n].key) # RunDescending(s)

RECURSIVE BinarySearch(_, _, _, _)
BinarySearch(s, pivot, l, r) ==
    IF l >= r THEN l
    ELSE LET p == l + ((r - l) \div 2)
         IN  IF FloatLt(pivot.key, s[p].key) THEN BinarySearch(s, pivot, l, p)
             ELSE BinarySearch(s, pivot, p + 1, r)

RECURSIVE BinarySort(_, _)
BinarySort(s, start) ==
    IF start > Len(s) THEN s
    ELSE LET l == BinarySearch(s, s[start], 1, start)
         IN  BinarySort([ i \in 1 .. Len(s) |->
                            IF i < l \/ i > start THEN s[i]
                            ELSE IF i = l THEN s[start]
                            ELSE s[i - 1] ],
                        start + 1)

ListSort(s, reverse) ==
    LET given == IF reverse THEN Reverse(s) ELSE s
        n == RunLength(given)
        run == IF RunDescending(given)
               THEN [ i \in 1 .. Len(given) |->
                        IF i <= n THEN given[n + 1 - i] ELSE given[i] ]
               ELSE given
        sorted == BinarySort(run, n + 1)
    IN  IF reverse THEN Reverse(sorted) ELSE sorted

\* sorted(gaps.items(), key=lambda x: abs(x[1]['gap']), reverse=True)[:3], line 135
PriorityGaps(gaps) ==
    LET items == [ i \in DOMAIN col_map |->
                     [ key |-> FloatAbs(gaps[col_map[i]].gap),
                       value |-> << col_map[i], gaps[col_map[i]] >> ] ]
        sorted == ListSort(items, TRUE)
    IN  [ n \in 1 .. 3 |-> sorted[n].value ]

\* predict_new_run(df, latest_row, model, scaler, feature_cols), lines 55-138;
\* form_score is what model.predict returned, in hundredths.  The formatted
\* distance of distance_category is left out.  The floats of profile and gaps
\* are Num(v) or NaN.
predict_new_run(latest_row, form_score) ==
    LET pace == parse_garmin_pace(Get(latest_row, "Avg Pace", Pace(5, 30)))
        distance_km == safe_float(Get(latest_row, "Distance", Num(10 * PScale)))
        gaps == Gaps(Features(latest_row), EliteTargets(distance_km))
    IN  IF pace.raised # "" THEN [ raised |-> pace.raised ]
        ELSE [ raised |-> "",
               form_score |-> PyRound(form_score, 10),
               profile |-> [ k \in DOMAIN FormProfile(latest_row) \cup {"avgpaceminkm"} |->
                               IF k = "avgpaceminkm" THEN Num(pace.value)
                               ELSE FormProfile(latest_row)[k] ],
               gaps |-> gaps,
               priority_gaps |-> PriorityGaps(gaps),
               distance_category |-> PaceCategory(distance_km) ]

----------------------------------------------------------------------------
(* The predictor: one call of safe_float, parse_garmin_pace or predict_new_run *)

\* how many hundredths of a km around each rung of the ladder are tried
MaxOffset == 2

\* a column the row does not have
Absent == [kind |-> "absent"]

DistanceValues ==
    {0, 500, 1000, 2000, 4220}
        \cup { rung * 100 + o : rung \in {7, 15, 25}, o \in (-MaxOffset) .. MaxOffset }

DistanceCells ==
    { Num(Hundredths(h)) : h \in DistanceValues } \cup {NaN, None, Text, Absent}

PaceCells ==
    { Pace(m, sec) : m \in 3 .. 8, sec \in 0 .. 59 }
        \cup { Num(Hundredths(h)) : h \in {420, 480, 585} }
        \cup { Clock(h, m, sec) : h \in {0, 1}, m \in {5, 59}, sec \in {0, 51} }
        \cup {NaN, None, Text, Empty, Garbled}

\* the row with the given cells, the absent ones left out
RowOf(cells) ==
    [ column \in { c \in DOMAIN cells : cells[c] # Absent } |-> cells[column] ]

LatestRows ==
    { RowOf(("Distance" :> distance) @@ ("Avg Run Cadence" :> cadence)
              @@ ("Avg Vertical Oscillation" :> Num(Hundredths(850)))
              @@ ("Avg Ground Contact Time" :> contact)
              @@ ("Avg Step Speed Loss %" :> loss)
              @@ ("Avg HR" :> heart) @@ ("Avg Pace" :> pace)) :
        distance \in DistanceCells,
        cadence \in {Num(Hundredths(16500)), Num(Hundredths(18250)), Text, Absent},
        contact \in {Num(Hundredths(26000)), None, NaN},
        loss \in {Num(Hundredths(620)), NaN},
        heart \in {Num(Hundredths(15000)), Num(Hundredths(17100))},
        pace \in {Pace(5, 51), Pace(4, 5), Num(Hundredths(480)), NaN, Text, Absent} }

\* what model.predict may return, in hundredths
FormScores == {7234, 8888}

InitPredictor ==
    /\ op = "start"
    /\ args = <<>>
    /\ result = <<>>
    /\ files = NoFiles
    /\ rng = FreshRng
    /\ steps = 0

SafeFloat ==
    /\ op = "start"
    /\ \E value \in DistanceCells \ {Absent} :
        /\ op' = "safe_float"
        /\ args' = [value |-> value]
        /\ result' = safe_float(value)
        /\ steps' = 1
        /\ UNCHANGED <<files, rng>>

ParseGarminPace ==
    /\ op = "start"
    /\ \E pace_str \in PaceCells :
        /\ op' = "parse_garmin_pace"
        /\ args' = [pace_str |-> pace_str]
        /\ result' = parse_garmin_pace(pace_str)
        /\ steps' = 1
        /\ UNCHANGED <<files, rng>>

PredictNewRun ==
    /\ op = "start"
    /\ \E latest_row \in LatestRows, form_score \in FormScores :
        /\ op' = "predict_new_run"
        /\ args' = [latest_row |-> latest_row, form_score |-> form_score]
        /\ result' = predict_new_run(latest_row, form_score)
        /\ steps' = 1
        /\ UNCHANGED <<files, rng>>

NextPredictor == SafeFloat \/ ParseGarminPace \/ PredictNewRun

SpecPredictor == InitPredictor /\ [][NextPredictor]_vars

----------------------------------------------------------------------------
(* Claims about the predictor, checked under SpecPredictor *)

\* the distance predict_new_run read from the row of the current call
CallDistance == safe_float(Get(args.latest_row, "Distance", Num(10 * PScale)))

\* the targets of the returned gaps for pace, cadence and heart rate, and the label
LadderTargets(pace, cadence, heart, label) ==
    /\ result.gaps.paceminkm.target = Hundredths(pace)
    /\ result.gaps.cadencespm.target = Hundredths(cadence)
    /\ result.gaps.heartratebpm.target = Hundredths(heart)
    /\ result.distance_category = label

\* C10: predict_new_run picks the elite targets by a ladder on the distance with
\* inclusive upper boundaries: distance <= 7 the 5K targets, 7 < distance <= 15
\* the 10K targets, 15 < distance <= 25 the Half targets, distance > 25 Marathon
\* with the base targets; the targets for vertical oscillation, ground contact
\* time and step speed loss are the base ones in every bucket.
C10_DistanceLadder ==
    (op = "predict_new_run" /\ result.raised = "") =>
        /\ CallDistance.kind = "num" =>
              LET d == CallDistance.v
              IN  /\ d <= Hundredths(700) => LadderTargets(420, 18000, 16500, "5K Training")
                  /\ (Hundredths(700) < d /\ d <= Hundredths(1500))
                        => LadderTargets(435, 17800, 16200, "10K Training")
                  /\ (Hundredths(1500) < d /\ d <= Hundredths(2500))
                        => LadderTargets(455, 17500, 15800, "Half Training")
                  /\ d > Hundredths(2500)
                        => LadderTargets(505, 17500, 15500, "Marathon Training")
        /\ result.gaps.verticaloscillationcm.target = Hundredths(720)
        /\ result.gaps.groundcontacttimems.target = Hundredths(24500)
        /\ result.gaps.stepspeedlosspct.target = Hundredths(450)

\* a run of exactly 7.00 km is scored against the 5K targets
C10_Witness ==
    /\ op = "predict_new_run"
    /\ result.raised = ""
    /\ CallDistance = Num(Hundredths(700))
    /\ LadderTargets(420, 18000, 16500, "5K Training")
    /\ result.gaps.verticaloscillationcm.target = Hundredths(720)

\* the columns priority_gaps names, and |gap| of a column of the result
PriorityColumns == { result.priority_gaps[n][1] : n \in DOMAIN result.priority_gaps }
AbsGap(col) == FloatAbs(result.gaps[col].gap)

\* C11: every metric has gap = current - target (signed); priority_gaps holds
\* exactly three metrics in order of non-increasing |gap|, and no metric left out
\* has a larger |gap| than a metric included.
C11_SignedGapsTopThree ==
    (op = "predict_new_run" /\ result.raised = "") =>
        /\ DOMAIN result.gaps = { col_map[i] : i \in DOMAIN col_map }
        /\ \A col \in DOMAIN result.gaps :
              result.gaps[col].gap
                  = FloatMinus(result.gaps[col].current, result.gaps[col].target)
        /\ Len(result.priority_gaps) = 3
        /\ Cardinality(PriorityColumns) = 3
        /\ \A n \in 1 .. 3 :
              result.priority_gaps[n][2] = result.gaps[result.priority_gaps[n][1]]
        /\ \A n \in 1 .. 2 :
              ~FloatLt(AbsGap(result.priority_gaps[n][1]),
                       AbsGap(result.priority_gaps[n + 1][1]))
        /\ \A out \in DOMAIN result.gaps \ PriorityColumns, in \in PriorityColumns :
              ~FloatLt(AbsGap(in), AbsGap(out))

\* C12: parse_garmin_pace never raises: a well-formed "M:SS" gives M + SS/60,
\* and every missing or malformed value (NaN, empty string, text that is no
\* number, parts that are no integers) gives the default 5.5; so predict_new_run
\* never fails on the pace of its row.
C12_PaceParserNeverRaises ==
    /\ op = "parse_garmin_pace" =>
          /\ result.raised = ""
          /\ args.pace_str.kind = "pace" =>
                60 * result.value
                    = (60 * args.pace_str.minutes + args.pace_str.seconds) * PScale
          /\ args.pace_str.kind \in {"nan", "none", "empty", "text", "garbled"} =>
                result.value = Hundredths(550)
    /\ op = "predict_new_run" => result.raised = ""

----------------------------------------------------------------------------
(* activities_analyzer.py: the cell parsers and analyze_activities *)

\* "1:02:3.5": three parts, one of them no integer
BrokenClock == [kind |-> "broken_clock"]

\* len(str(x).split(':'))
Parts(x) ==
    CASE x.kind \in {"clock", "broken_clock"} -> 3
      [] x.kind \in {"pace", "garbled"} -> 2
      [] OTHER -> 1

\* parse_time_to_seconds, in seconds
parse_time_to_seconds(time_str) ==
    IF Parts(time_str) = 3
    THEN IF time_str.kind = "clock"
         THEN [raised |-> "",
               value |-> time_str.hours * 3600 + time_str.minutes * 60 + time_str.seconds]
         ELSE [raised |-> "", value |-> 0]         \* int() raised: except
    ELSE [raised |-> "", value |-> 0]

\* "50.1% L / 49.9% R": two percentages in tenths, each followed by a mark
\* ("L", "R" or none); "50.1% L" is the text without its second part
Balance(left, l_mark, right, r_mark) ==
    [kind |-> "balance", left |-> left, l_mark |-> l_mark,
     right |-> right, r_mark |-> r_mark]
HalfBalance(left, l_mark) == [kind |-> "half_balance", left |-> left, l_mark |-> l_mark]

\* parse_gct_balance without its .replace('%', ''): float("50.1") becomes
\* float("50.1%"), which raises for every text
parse_gct_balance_keeps_percent(balance_str) ==
    [raised |-> "", left |-> 500, right |-> 500]

\* parse_gct_balance, in tenths of a percent
parse_gct_balance(balance_str) ==
    LET default == [raised |-> "", left |-> 500, right |-> 500]
    IN  IF balance_str.kind # "balance"
        THEN default        \* float(parts[0]) raises, or parts[1] does not exist
        ELSE IF balance_str.l_mark \notin {"L", ""} THEN default
        ELSE IF balance_str.r_mark \notin {"R", ""} THEN default
        ELSE [raised |-> "", left |-> balance_str.left, right |-> balance_str.right]

\* the lambda of lines 117-119 on one split 'Avg Pace', in 1/PScale minutes
PaceMinutes(x) ==
    IF Parts(x) = 2
    THEN IF x.kind = "pace"
         THEN [raised |-> "",
               value |-> ((x.minutes * 60 + x.seconds) * PScale) \div 60]
         ELSE [raised |-> "ValueError"]            \* int() of a part that is no integer
    ELSE [raised |-> "", value |-> 0]

\* Series.sum() and Series.max() of a column of numbers
RECURSIVE SeriesSum(_)
SeriesSum(s) == IF s = <<>> THEN 0 ELSE s[1] + SeriesSum(Tail(s))
RECURSIVE SeriesMax(_)
SeriesMax(s) == IF Len(s) = 1 THEN s[1] ELSE Max(s[1], SeriesMax(Tail(s)))

\* analyze_activities(df): the counts, the heart-rate figures and every figure
\* that comes from a parsed text column; df is the sequence of its rows
analyze_activities(df) ==
    IF df = <<>> THEN [raised |-> "", analysis |-> <<>>]
    ELSE LET n == Len(df)
             Time_Seconds == [i \in 1..n |-> parse_time_to_seconds(df[i].Time).value]
             balance == [i \in 1..n |-> parse_gct_balance(df[i].AvgGCTBalance)]
             pace == [i \in 1..n |-> PaceMinutes(df[i].AvgPace)]
             avg_hr == [i \in 1..n |-> df[i].AvgHR]
             max_hr == SeriesMax([i \in 1..n |-> df[i].MaxHR])
         IN  IF \E i \in 1..n : pace[i].raised # ""
             THEN [raised |-> "ValueError"]
             ELSE [raised |-> "",
                   analysis |->
                     [num_activities |-> n,
                      total_distance_km |-> SeriesSum([i \in 1..n |-> df[i].Distance]),
                      total_time_hours |-> Frac(SeriesSum(Time_Seconds), 3600),
                      avg_hr |-> Frac(SeriesSum(avg_hr), n),
                      max_hr |-> max_hr,
                      hr_zone_efficiency |->
                          IF max_hr > 0 THEN Frac(SeriesSum(avg_hr) * 100, n * max_hr)
                          ELSE Frac(0, 1),
                      avg_gct_balance_left |->
                          Frac(SeriesSum([i \in 1..n |-> balance[i].left]), n),
                      avg_gct_balance_right |->
                          Frac(SeriesSum([i \in 1..n |-> balance[i].right]), n),
                      avg_pace_min_km |->
                          Frac(SeriesSum([i \in 1..n |-> pace[i].value]), n)]]

----------------------------------------------------------------------------
(* the aggregator's specification: one call per behaviour *)

\* the rows a table may hold beyond its first
MaxMoreRows == 1

TimeCells ==
    { Clock(h, m, sec) : h \in {0, 1}, m \in {2, 45}, sec \in {3, 30} }
        \cup {Pace(45, 30), BrokenClock, Garbled, Text, NaN, Num(3723)}

BalanceCells ==
    { Balance(l, lm, r, rm) : l \in {501, 487}, lm \in {"L", "R", ""},
                              r \in {499, 513}, rm \in {"R", "L", ""} }
        \cup { HalfBalance(l, lm) : l \in {501, 487}, lm \in {"L", "R", ""} }
        \cup {Text, NaN, Num(500)}

AnalyzerPaceCells ==
    { Pace(m, sec) : m \in {4, 5}, sec \in {0, 51} }
        \cup {Clock(1, 5, 51), Garbled, Text, NaN, Num(Hundredths(550))}

ActivityRow(time, balance, pace, hr) ==
    [Time |-> time, AvgGCTBalance |-> balance, AvgPace |-> pace,
     Distance |-> 1000, AvgHR |-> hr[1], MaxHR |-> hr[2]]

\* the rows that follow the first row of a table
LaterRows ==
    { ActivityRow(Clock(0, 45, 30), Balance(487, "L", 513, "R"), Pace(5, 51), <<150, 172>>),
      ActivityRow(BrokenClock, Text, Text, <<0, 0>>),
      ActivityRow(Clock(1, 2, 3), NaN, Garbled, <<141, 165>>) }

RECURSIVE RowsOfLength(_)
RowsOfLength(k) ==
    IF k = 0 THEN { <<>> }
    ELSE { Append(s, r) : s \in RowsOfLength(k - 1), r \in LaterRows }

DataFrames ==
    { <<>> } \cup
    { <<ActivityRow(t, b, p, hr)>> \o more :
        t \in {Clock(1, 2, 3), BrokenClock, NaN}, b \in {Balance(501, "L", 499, "R"), Text},
        p \in AnalyzerPaceCells, hr \in {<<150, 172>>, <<0, 0>>},
        more \in UNION { RowsOfLength(k) : k \in 0..MaxMoreRows } }

ParseTimeToSeconds ==
    /\ op = "start"
    /\ \E time_str \in TimeCells :
        /\ op' = "parse_time_to_seconds"
        /\ args' = [time_str |-> time_str]
        /\ result' = parse_time_to_seconds(time_str)
        /\ steps' = 1
        /\ UNCHANGED <<files, rng>>

ParseGctBalance ==
    /\ op = "start"
    /\ \E balance_str \in BalanceCells :
        /\ op' = "parse_gct_balance"
        /\ args' = [balance_str |-> balance_str]
        /\ result' = parse_gct_balance(balance_str)
        /\ steps' = 1
        /\ UNCHANGED <<files, rng>>

AnalyzeActivities ==
    /\ op = "start"
    /\ \E df \in DataFrames :
        /\ op' = "analyze_activities"
        /\ args' = [df |-> df]
        /\ result' = analyze_activities(df)
        /\ steps' = 1
        /\ UNCHANGED <<files, rng>>

NextAnalyzer == ParseTimeToSeconds \/ ParseGctBalance \/ AnalyzeActivities

SpecAnalyzer == InitPredictor /\ [][NextAnalyzer]_vars

----------------------------------------------------------------------------
(* claims about the aggregator *)

\* C13: parse_time_to_seconds returns H*3600 + M*60 + S for a text of three
\* integer parts ("01:02:03" gives 3723) and 0 for every other input;
\* parse_gct_balance returns exactly the two percentages of a text made of two
\* percentages, the first followed by "L" or nothing and the second by "R" or
\* nothing ("50.1% L / 49.9% R" gives (50.1, 49.9)), and exactly (50.0, 50.0)
\* for every other input; neither of them ever raises.
C13_CellParsersNeverRaise ==
    /\ op = "parse_time_to_seconds" =>
          /\ result.raised = ""
          /\ result.value =
                IF args.time_str.kind = "clock"
                THEN args.time_str.hours * 3600 + args.time_str.minutes * 60
                        + args.time_str.seconds
                ELSE 0
    /\ op = "parse_gct_balance" =>
          /\ result.raised = ""
          /\ IF /\ args.balance_str.kind = "balance"
                /\ args.balance_str.l_mark \in {"L", ""}
                /\ args.balance_str.r_mark \in {"R", ""}
             THEN /\ result.left = args.balance_str.left
                  /\ result.right = args.balance_str.right
             ELSE /\ result.left = 500
                  /\ result.right = 500

\* "50.1% L / 49.9% R" gave (50.1, 49.9)
C13_Witness ==
    /\ op = "parse_gct_balance"
    /\ args.balance_str = Balance(501, "L", 499, "R")
    /\ result = [raised |-> "", left |-> 501, right |-> 499]

\* C14: analyze_activities never raises because of a malformed 'Avg Pace':
\* every value that is no well-formed "M:SS" counts as 0, and a well-formed one
\* contributes M + SS/60 to avg_pace_min_km.
C14_MalformedPaceCountsAsZero ==
    (op = "analyze_activities" /\ args.df # <<>>) =>
        /\ result.raised = ""
        /\ 60 * Len(args.df) * result.analysis.avg_pace_min_km.n =
              PScale * result.analysis.avg_pace_min_km.d *
              SeriesSum([i \in DOMAIN args.df |->
                            IF args.df[i].AvgPace.kind = "pace"
                            THEN 60 * args.df[i].AvgPace.minutes + args.df[i].AvgPace.seconds
                            ELSE 0])

\* C19: in run_full_pipeline, once the activities are loaded (a table that is
\* not empty) and the profile is saved, an exception in the form analysis or in
\* the synthetic generation is caught and the phase reported as skipped, the
\* phase after it is still attempted and the completion message is reached; on
\* an empty table the script returns before the later phases.
C19_LaterPhasesNeverAbort ==
    op = "run_full_pipeline" =>
        IF Exists(files, ActivitiesCsv) /\ ~files[ActivitiesCsv].empty
        THEN LET profile == files[ActivitiesCsv].profile
             IN  /\ result.completed
                 /\ files[RunningProfileJson] = profile
                 /\ result.form_analysis =
                        IF analyze_form(profile).raised # "" THEN "skipped" ELSE "done"
                 /\ Exists(files, TargetProfilesJson) =>
                        /\ result.synthetic \in {"skipped", "done"}
                        /\ result.synthetic = "done" <=> result.generated
                        /\ result.synthetic = "skipped" <=>
                              \E k \in DOMAIN files[TargetProfilesJson] :
                                  "cadence_spm" \notin
                                      DOMAIN files[TargetProfilesJson][k].metrics
        ELSE /\ ~result.completed
             /\ result.form_analysis = "not_run"
             /\ result.synthetic = "not_run"
             /\ ~result.generated

\* both later phases raised and were skipped, and the script still completed
C19_Witness ==
    /\ op = "run_full_pipeline"
    /\ steps = 1
    /\ result.form_analysis = "skipped"
    /\ result.synthetic = "skipped"
    /\ result.completed

----------------------------------------------------------------------------
(* pipeline.py: PipelineOrchestrator *)

\* the orchestrator object, with what the run has logged so far (log), the
\* exception in flight (raised, error) and the phase run() looks at next (at)

all_phases == <<1, 2, 3, 4>>

\* what the run logs or prints about a phase, and about anything else
PhaseEvent(event, phase) == [event |-> event, phase |-> phase]
NamedEvent(event, name) == [event |-> event, name |-> name]

\* __init__: phases <<>> stands for None and for the empty list alike
Orchestrator(phases, skip_phases, dry_run) ==
    [ phases |-> SelectSeq(IF phases = <<>> THEN all_phases ELSE phases,
                           LAMBDA p : \A i \in DOMAIN skip_phases : skip_phases[i] # p),
      dry_run |-> dry_run,
      results |-> [ k \in {} |-> <<>> ],
      log |-> <<>>, raised |-> "", error |-> "", at |-> 1, exit |-> "" ]

Selected(self, phase) == \E i \in DOMAIN self.phases : self.phases[i] = phase

\* the functions the imported modules define
DefinedFunctions ==
    { "fit_converter.fit_to_csv", "fit_converter.convert_recent_fit_files",
      "activities_analyzer.load_activities", "activities_analyzer.analyze_activities",
      "activities_analyzer.create_running_profile",
      "form_analyzer.load_data", "form_analyzer.analyze_form",
      "target_profiles.print_profiles", "target_profiles.compare_to_profiles",
      "synthetic_data_generator.load_current_profile",
      "synthetic_data_generator.load_target_profiles",
      "synthetic_data_generator.generate_all_profiles",
      "synthetic_data_generator.print_summary" }

\* one statement of a try block: not reached once an exception is in flight
Log(self, event) ==
    IF self.raised # "" THEN self ELSE [self EXCEPT !.log = Append(@, event)]

\* module.function(...): AttributeError when the module has no such function
Call(self, function) ==
    IF self.raised # "" THEN self
    ELSE IF function \in DefinedFunctions
         THEN [self EXCEPT !.log = Append(@, NamedEvent("call", function))]
         ELSE [self EXCEPT !.log = Append(@, NamedEvent("call", function)),
                           !.raised = "AttributeError", !.error = function]

\* a call made although dry_run is set
Unguarded(self, function) == Call(self, function)

\* "if not self.dry_run:" around a call
Guarded(self, function) == IF self.dry_run THEN self ELSE Call(self, function)

\* an except clause that records the error and does not raise again
ExceptClauseSwallow(self, phase) ==
    IF self.raised = "" THEN self
    ELSE [self EXCEPT !.log = Append(@, PhaseEvent("error", phase)),
                      !.results = Write(@, phase, [status |-> "error", error |-> self.error]),
                      !.raised = "", !.error = ""]

\* "except Exception as e:" of run_phase_1 and run_phase_2
ExceptClause(self, phase) ==
    IF self.raised = "" THEN self
    ELSE [self EXCEPT !.log = Append(@, PhaseEvent("error", phase)),
                      !.results = Write(@, phase, [status |-> "error", error |-> self.error])]

\* no .fit file, taken as an error
NoFitFilesFatal(self) ==
    [self EXCEPT !.log = self.log \o << NamedEvent("warning", "no_fit_files") >>,
                 !.raised = "FileNotFoundError", !.error = "no_fit_files"]

\* lines 106-110
NoFitFiles(self) ==
    [self EXCEPT !.log = self.log \o << NamedEvent("warning", "no_fit_files"), PhaseEvent("skipped", 1) >>,
                 !.results = Write(@, 1, [status |-> "skipped", reason |-> "no_fit_files"])]

\* the .fit files of DATA_DIR / "fit"
FitFiles(disk) == DOMAIN disk \cap {"fit/a.fit", "fit/b.fit"}

\* lines 117-119: one conversion for each of n files
RECURSIVE ConvertAll(_, _)
ConvertAll(self, n) ==
    IF n = 0 THEN self
    ELSE ConvertAll(Guarded(self, "fit_converter.convert_fit_to_csv"), n - 1)

Success(self, phase) ==
    IF self.raised # "" THEN self
    ELSE [self EXCEPT !.log = Append(@, PhaseEvent("success", phase)),
                      !.results = Write(@, phase, [status |-> "success"])]

run_phase_1(self, disk) ==
    IF ~Selected(self, 1) THEN self
    ELSE LET started == Log(self, PhaseEvent("start", 1))
         IN  IF FitFiles(disk) = {}
             THEN ExceptClause(NoFitFiles(started), 1)
             ELSE LET converted == ConvertAll(started, Cardinality(FitFiles(disk)))
                      analyzed == Guarded(converted, "activities_analyzer.analyze_all_activities")
                  IN  ExceptClause(Success(analyzed, 1), 1)

run_phase_2(self, disk) ==
    IF ~Selected(self, 2) THEN self
    ELSE LET started == Log(self, PhaseEvent("start", 2))
             checked == IF Exists(disk, ActivitiesCsv) THEN started
                        ELSE run_phase_1(Log(started, NamedEvent("warning", "no_activities")), disk)
             form == Guarded(Log(checked, NamedEvent("step", "2.1")),
                             "form_analyzer.analyze_and_score_form")
             profiles == Guarded(Log(form, NamedEvent("step", "2.2")),
                                 "target_profiles.print_profiles")
             current == Guarded(Log(profiles, NamedEvent("step", "2.3")),
                                "form_analyzer.load_current_profile")
             targets == Guarded(current, "target_profiles.load_target_profiles")
             generated == Guarded(targets, "synthetic_data_generator.generate_all_profiles")
             printed == Guarded(generated, "synthetic_data_generator.print_summary")
         IN  ExceptClause(Success(printed, 2), 2)

\* run_phase_3 and run_phase_4, for phase 3 and 4
run_placeholder(self, phase) ==
    IF ~Selected(self, phase) THEN self
    ELSE [self EXCEPT !.log = self.log \o << PhaseEvent("start", phase), PhaseEvent("not_implemented", phase) >>,
                      !.results = Write(@, phase, [status |-> "not_implemented"])]

----------------------------------------------------------------------------
(* the orchestrator's specification: one run() per behaviour, a phase a step *)

\* the longest --phase list and the longest --skip-phase list
MaxPhases == 2
MaxSkipped == 1

RECURSIVE PhaseLists(_)
PhaseLists(n) ==
    IF n = 0 THEN { <<>> }
    ELSE PhaseLists(n - 1) \cup
         { Append(s, p) : s \in { x \in PhaseLists(n - 1) : Len(x) = n - 1 }, p \in 1..5 }

OrchestratorDisks ==
    { [ n \in fit \cup csv |-> <<>> ] :
        fit \in {{}, {"fit/a.fit"}, {"fit/a.fit", "fit/b.fit"}}, csv \in SUBSET {ActivitiesCsv} }

NewOrchestrator ==
    /\ op = "start"
    /\ \E phases \in PhaseLists(MaxPhases) \cup {all_phases, <<4, 3, 2, 1>>},
          skip_phases \in PhaseLists(MaxSkipped), dry_run \in BOOLEAN,
          disk \in OrchestratorDisks :
        /\ op' = "__init__"
        /\ args' = [phases |-> phases, skip_phases |-> skip_phases, dry_run |-> dry_run]
        /\ result' = Orchestrator(phases, skip_phases, dry_run)
        /\ files' = disk
        /\ steps' = 1
        /\ UNCHANGED rng

\* run(), lines 241-248: the next "if n in self.phases: self.run_phase_n()"
RunPhase ==
    /\ op \in {"__init__", "run"}
    /\ result.raised = ""
    /\ result.at <= 4
    /\ op' = "run"
    /\ result' =
          LET self == [result EXCEPT !.at = @ + 1]
          IN  IF ~Selected(result, result.at) THEN self
              ELSE CASE result.at = 1 -> run_phase_1(self, files)
                     [] result.at = 2 -> run_phase_2(self, files)
                     [] OTHER -> run_placeholder(self, result.at)
    /\ steps' = steps + 1
    /\ UNCHANGED <<args, files, rng>>

\* run(), lines 250-256: the summary, and sys.exit(1) after an exception
RunEnd ==
    /\ op \in {"__init__", "run"}
    /\ result.raised # "" \/ result.at = 5
    /\ op' = "exit"
    /\ result' = [result EXCEPT !.log = Append(@, NamedEvent("print", "summary")),
                                !.exit = IF result.raised # "" THEN "1" ELSE "0",
                                !.raised = ""]
    /\ steps' = steps + 1
    /\ UNCHANGED <<args, files, rng>>

\* the files of DATA_DIR the orchestrator looks at
TrackedFiles == {"fit/a.fit", "fit/b.fit", ActivitiesCsv}

\* fit_dir / fit.filename, line 37: the name is the client's and is not checked,
\* so "../Activities.csv" lands on DATA_DIR / "Activities.csv"
UploadPaths == {"fit/a.fit", "fit/b.fit", ActivitiesCsv}

\* api/routers/upload.py, upload_files lines 36-39: the uploaded file is written
\* under the client's name while the orchestrator is at work (the two csv files
\* go to DATA_DIR / "csv", which the orchestrator does not read)
UploadFit ==
    /\ op \in {"__init__", "run"}
    /\ \E fit_path \in UploadPaths \ DOMAIN files :
          files' = Write(files, fit_path, <<>>)
    /\ UNCHANGED <<op, args, result, rng, steps>>

\* upload_files line 41, run_full_pipeline of api/utils/pipeline_runner.py:
\* subprocess.run(["bash", "run.sh"]).  The script is not part of the sources;
\* it runs the pipeline in a process of its own, and which of the tracked files
\* it leaves behind is open: any of them may appear
RunSh ==
    /\ op \in {"__init__", "run"}
    /\ \E written \in SUBSET TrackedFiles :
          /\ ~(written \subseteq DOMAIN files)
          /\ files' = [ n \in DOMAIN files \cup written |->
                          IF n \in DOMAIN files THEN files[n] ELSE <<>> ]
    /\ UNCHANGED <<op, args, result, rng, steps>>

\* garmin_client.unzip_garmin_exports: zip_ref.extractall(FIT_DIR) leaves the
\* members of the exports in DATA_DIR / "fit", one .fit file or several
UnzipGarminExports ==
    /\ op \in {"__init__", "run"}
    /\ \E members \in SUBSET {"fit/a.fit", "fit/b.fit"} :
          /\ ~(members \subseteq DOMAIN files)
          /\ files' = [ n \in DOMAIN files \cup members |->
                          IF n \in DOMAIN files THEN files[n] ELSE <<>> ]
    /\ UNCHANGED <<op, args, result, rng, steps>>

NextOrchestrator ==
    NewOrchestrator \/ RunPhase \/ RunEnd \/ UploadFit \/ RunSh \/ UnzipGarminExports

SpecOrchestrator == InitPredictor /\ [][NextOrchestrator]_vars

----------------------------------------------------------------------------
(* claims about the orchestrator *)

\* an orchestrator exists; the positions of its log; the phases it was asked for
Constructed == op \in {"__init__", "run", "exit"}
Logged(event) == \E i \in DOMAIN result.log : result.log[i] = event
Started(phase) == Logged(PhaseEvent("start", phase))
Requested ==
    { p \in 1..4 : /\ args.phases = <<>> \/ \E i \in DOMAIN args.phases : args.phases[i] = p
                   /\ \A i \in DOMAIN args.skip_phases : args.skip_phases[i] # p }

\* C15: whenever run_phase_2 starts and Activities.csv is missing, Phase 1's
\* ingestion is invoked and has finished before Phase 2's form-analysis step
\* begins, whether or not Phase 1 was selected.
C15_IngestionBeforeFormAnalysis ==
    Constructed =>
        \A i, j \in DOMAIN result.log :
            ( /\ i < j
              /\ result.log[i] = NamedEvent("warning", "no_activities")
              /\ result.log[j] = NamedEvent("step", "2.1") )
            => \E a, b \in i..j :
                  /\ a < b
                  /\ result.log[a] = PhaseEvent("start", 1)
                  /\ result.log[b] \in {PhaseEvent("skipped", 1), PhaseEvent("success", 1)}

\* C16: if a phase raises, that phase is recorded as 'error', no later phase is
\* started, the summary is printed and the exit status is 1; if no phase raises,
\* the run does not end with a non-zero status.
C16_ErrorStopsTheRun ==
    Constructed =>
        /\ \A i \in DOMAIN result.log :
              result.log[i].event = "error" =>
                  /\ result.log[i].phase \in DOMAIN result.results
                  /\ result.results[result.log[i].phase].status = "error"
                  /\ \A j \in DOMAIN result.log : j > i => result.log[j].event # "start"
                  /\ op = "exit" => result.exit = "1"
        /\ op = "exit" =>
              /\ result.log[Len(result.log)] = NamedEvent("print", "summary")
              /\ (\A i \in DOMAIN result.log : result.log[i].event # "error")
                    => result.exit = "0"

\* Phase 1 failed, Phase 2 was selected and never started, the status is 1
C16_Witness ==
    /\ op = "exit"
    /\ result.exit = "1"
    /\ Logged(PhaseEvent("error", 1))
    /\ result.results[1].status = "error"
    /\ Selected(result, 2)
    /\ ~Started(2)
    /\ Logged(NamedEvent("print", "summary"))

\* C17: the phases started are the requested ones (all four when none is
\* requested) minus the skipped ones, started in ascending order whatever the
\* order of the request; no other phase records a result; phases 3 and 4 record
\* nothing but 'not_implemented' and never raise.
C17_SelectedPhasesAscending ==
    Constructed =>
        /\ \A i \in DOMAIN result.log :
              result.log[i].event = "start" => result.log[i].phase \in Requested
        /\ \A i, j \in DOMAIN result.log :
              (i < j /\ result.log[i].event = "start" /\ result.log[j].event = "start")
                  => result.log[i].phase < result.log[j].phase
        /\ DOMAIN result.results \subseteq Requested
        /\ \A p \in {3, 4} \cap DOMAIN result.results :
              result.results[p] = [status |-> "not_implemented"]
        /\ ~Logged(PhaseEvent("error", 3)) /\ ~Logged(PhaseEvent("error", 4))

\* C18: a missing input is never fatal: Phase 1 without a .fit file warns,
\* records 'skipped' with reason 'no_fit_files', does not raise, and run() goes
\* on; Phase 2 without Activities.csv warns and goes on to its first step
\* unless a call of the Phase 1 it invokes raises (a .fit file may have arrived
\* since), and a run that ends with status 1 ends so because a call raised.
C18_MissingInputNotFatal ==
    Constructed =>
        /\ \A i \in DOMAIN result.log :
              result.log[i] = NamedEvent("warning", "no_fit_files") =>
                  /\ i < Len(result.log)
                  /\ result.log[i + 1] = PhaseEvent("skipped", 1)
                  /\ i + 1 < Len(result.log) => result.log[i + 2] # PhaseEvent("error", 1)
                  /\ (\A j \in DOMAIN result.log :
                         j > i + 1 => /\ result.log[j] # PhaseEvent("success", 1)
                                      /\ result.log[j] # PhaseEvent("error", 1))
                        => result.results[1] = [status |-> "skipped", reason |-> "no_fit_files"]
                  /\ op = "exit" =>
                        \A p \in Requested \ {1} :
                            (\A q \in Requested \ {1} : p <= q) => Started(p)
        /\ \A i \in DOMAIN result.log :
              result.log[i] = NamedEvent("warning", "no_activities") =>
                  \E j \in DOMAIN result.log :
                      /\ j > i
                      /\ \/ result.log[j] = NamedEvent("step", "2.1")
                         \/ /\ result.log[j] = PhaseEvent("error", 1)
                            /\ result.log[j - 1].event = "call"
        /\ \A i \in DOMAIN result.log :
              result.log[i].event = "error" =>
                  i > 1 /\ result.log[i - 1].event \in {"call", "error"}

\* a run without .fit files and without Activities.csv went through phases 1
\* and 2 and ended with status 0
C18_Witness ==
    /\ op = "exit"
    /\ Logged(NamedEvent("warning", "no_fit_files"))
    /\ Logged(NamedEvent("warning", "no_activities"))
    /\ result.results[1].status = "skipped"
    /\ result.results[2].status = "success"
    /\ result.exit = "0"

\* C20: with dry_run the orchestrator executes nothing: no converter, analyzer,
\* profile or generator function is called (also when Phase 2 invokes Phase 1),
\* every phase that started has recorded 'success', 'skipped' or
\* 'not_implemented', and run() does not end with a non-zero status.
C20_DryRunExecutesNothing ==
    (Constructed /\ result.dry_run) =>
        /\ \A i \in DOMAIN result.log : result.log[i].event # "call"
        /\ \A p \in 1..4 :
              Started(p) =>
                  /\ p \in DOMAIN result.results
                  /\ result.results[p].status \in {"success", "skipped", "not_implemented"}
        /\ result.exit # "1"

\* a dry run over .fit files, without Activities.csv: Phase 2 invoked Phase 1,
\* and the run ended with status 0
C20_Witness ==
    /\ op = "exit"
    /\ result.dry_run
    /\ FitFiles(files) # {}
    /\ Logged(NamedEvent("warning", "no_activities"))
    /\ result.results[1].status = "success"
    /\ result.results[2].status = "success"
    /\ result.exit = "0"

----------------------------------------------------------------------------
(* further claims about the generator *)

\* config.py: the run counts the configuration announces
SYNTHETIC_RUNS_PER_PROFILE == 144
TOTAL_SYNTHETIC_RUNS == 432

\* C21: generate_all_profiles over the three default archetypes produces
\* SYNTHETIC_RUNS_PER_PROFILE = 144 runs per profile and TOTAL_SYNTHETIC_RUNS =
\* 432 runs in all, the count the standalone pipeline reports after generation.
C21_ConfiguredRunCounts ==
    (op = "generate_all_profiles" /\ result.raised = "") =>
        /\ \A n \in DOMAIN result.results :
              /\ result.results[n].num_runs = SYNTHETIC_RUNS_PER_PROFILE
              /\ Len(result.results[n].dataframe) = SYNTHETIC_RUNS_PER_PROFILE
        /\ TotalRuns(result.results, Len(result.results)) = TOTAL_SYNTHETIC_RUNS

\* the rows of the table, or of the tables, the last call returned
TableRows ==
    IF op = "generate_synthetic_progression" /\ result.raised = ""
    THEN { result.rows[i] : i \in DOMAIN result.rows }
    ELSE IF op = "generate_all_profiles" /\ result.raised = ""
    THEN UNION { { result.results[n].dataframe[i] : i \in DOMAIN result.results[n].dataframe }
                 : n \in DOMAIN result.results }
    ELSE {}

\* the cadence and the heart rate a row's derived fields are computed from
RowCadence(r) == IF "cadence_spm" \in DOMAIN r.metrics THEN r.metrics.cadence_spm ELSE 17000
RowHeartRate(r) ==
    IF "heart_rate_bpm" \in DOMAIN r.metrics THEN r.metrics.heart_rate_bpm ELSE 15000

\* 200 times the power in watts, and 200 times the clipped training effect in tenths
RowPower(r) == 200 * 200 + 4 * (RowCadence(r) - 16000) + (RowHeartRate(r) - 14000)
RowEffect(r) ==
    LET te == 15 * 200 + (RowHeartRate(r) - 14000)
    IN  IF te < 10 * 200 THEN 10 * 200 ELSE IF te > 50 * 200 THEN 50 * 200 ELSE te

\* C22 as stated: every run's derived fields are functions of the row's own
\* values: pace_min_km = duration_min / distance_km, power_watts = 200 +
\* (cadence - 160) * 2 + (HR - 140) * 0.5 and aerobic_te = clip(1.5 + (HR - 140)
\* * 0.05, 1.0, 5.0), so aerobic_te lies in [1.0, 5.0].
C22_ExactDerivedFields ==
    \A r \in TableRows :
        /\ r.pace_min_km * r.distance_km = 1000 * r.duration_min
        /\ 200 * r.power_watts = RowPower(r)
        /\ 200 * r.aerobic_te = RowEffect(r)
        /\ r.aerobic_te \in 10 .. 50

\* C22 amended: the derived fields are those values rounded: the pace to two
\* decimals, the power to a whole number, the training effect to one decimal;
\* aerobic_te lies in [1.0, 5.0].
C22_RoundedDerivedFields ==
    \A r \in TableRows :
        /\ r.pace_min_km = PyRound(1000 * r.duration_min, r.distance_km)
        /\ r.power_watts = PyRound(RowPower(r), 200)
        /\ r.aerobic_te = PyRound(RowEffect(r), 200)
        /\ r.aerobic_te \in 10 .. 50

\* a run whose heart rate puts the raw training effect below 1.0 and whose pace
\* is no two-decimal number
C22_Witness ==
    \E r \in TableRows :
        /\ 15 * 200 + (RowHeartRate(r) - 14000) < 10 * 200
        /\ r.aerobic_te = 10
        /\ r.pace_min_km * r.distance_km # 1000 * r.duration_min
        /\ r.pace_min_km = PyRound(1000 * r.duration_min, r.distance_km)

\* the tables the last call returned
Tables ==
    IF op = "generate_synthetic_progression" /\ result.raised = ""
    THEN { result.rows }
    ELSE IF op = "generate_all_profiles" /\ result.raised = ""
    THEN { result.results[n].dataframe : n \in DOMAIN result.results }
    ELSE {}

\* the phase of a run by thirds of p = n / d, for d # 0
PhaseByThirds(n, d) ==
    IF d > 0
    THEN IF 3 * n < d THEN "early" ELSE IF 3 * n < 2 * d THEN "mid" ELSE "advanced"
    ELSE IF 3 * n > d THEN "early" ELSE IF 3 * n > 2 * d THEN "mid" ELSE "advanced"

\* C23: each run's improvement_phase is early, mid or advanced by p = (cadence
\* of the run's week - first-week cadence) / (last-week cadence - first-week
\* cadence): early when p < 1/3, mid when 1/3 <= p < 2/3, advanced when p >= 2/3.
C23_PhaseByThirds ==
    \A rows \in Tables :
        \A i \in DOMAIN rows :
            LET first == rows[1].metrics.cadence_spm
                last == rows[Len(rows)].metrics.cadence_spm
            IN  /\ rows[i].improvement_phase \in {"early", "mid", "advanced"}
                /\ last # first =>
                      rows[i].improvement_phase
                          = PhaseByThirds(rows[i].metrics.cadence_spm - first, last - first)

\* the label the source computes from n = cadence - first and d = last - first
\* (hundredths): p = n / (d + 0.001), "early" when p < 0.33, "mid" when p < 0.67
PhaseByThresholds(n, d) ==
    LET den == 10 * d + 1
    IN  IF den > 0
        THEN IF 1000 * n < 33 * den THEN "early"
             ELSE IF 1000 * n < 67 * den THEN "mid" ELSE "advanced"
        ELSE IF 1000 * n > 33 * den THEN "early"
             ELSE IF 1000 * n > 67 * den THEN "mid" ELSE "advanced"

\* C23 (as amended): every run is labelled early, mid or advanced by
\* p = (cadence of its week - first-week cadence) / (last-week cadence -
\* first-week cadence + 0.001): early when p < 0.33, mid when 0.33 <= p < 0.67,
\* advanced when p >= 0.67
C23_PhaseByThresholds ==
    \A rows \in Tables : \A i \in DOMAIN rows :
        LET first == rows[1].metrics.cadence_spm
            last == rows[Len(rows)].metrics.cadence_spm
        IN  /\ rows[i].improvement_phase \in {"early", "mid", "advanced"}
            /\ rows[i].improvement_phase
                   = PhaseByThresholds(rows[i].metrics.cadence_spm - first, last - first)

\* a run whose p lies between 0.33 and one third and is labelled mid
C23_Witness ==
    /\ op = "generate_synthetic_progression"
    /\ result.raised = ""
    /\ \E i \in DOMAIN result.rows :
          LET rows == result.rows
              n == rows[i].metrics.cadence_spm - rows[1].metrics.cadence_spm
              d == rows[Len(rows)].metrics.cadence_spm - rows[1].metrics.cadence_spm
          IN  /\ d # 0
              /\ PhaseByThirds(n, d) = "early"
              /\ rows[i].improvement_phase = "mid"

----------------------------------------------------------------------------
(* further claims about interpolate_metric *)

\* the call interpolate_metric(current, target, weeks, noise_level) has returned
Interpolated == op = "interpolate_metric"

\* the noise standard deviation of one week of the call made
StdOfWeek(week) ==
    noise_std(args.current, args.target, args.weeks, args.noise_level, week)

\* the final week's value before noise is the target, and the value returned
\* for it is round(target + noise_std * deviate, 2)
FinalWeekIsTarget ==
    args.weeks >= 1 =>
        LET weeks == args.weeks
            std == StdOfWeek(weeks)
            z == WeekDeviate([rng EXCEPT !.calls = @ - weeks], weeks)
        IN  /\ Progress(args.current, args.target, weeks, weeks) = args.target * weeks
            /\ result[weeks] - 2 * (args.target \div 2)
                   = PyRound(DeviateUnit * std.d * (args.target % 2) + z * std.n,
                             DeviateUnit * std.d)

\* the noise never grows from one week to the next
StdNonIncreasing ==
    \A week \in 1 .. args.weeks - 1 :
        /\ StdOfWeek(week).d = StdOfWeek(week + 1).d
        /\ StdOfWeek(week).n >= StdOfWeek(week + 1).n

StdStrictlyDecreasing ==
    \A week \in 1 .. args.weeks - 1 :
        /\ StdOfWeek(week).d = StdOfWeek(week + 1).d
        /\ StdOfWeek(week).n > StdOfWeek(week + 1).n

\* no noise at all, and so the exact interpolation, when current = target
StdZeroAtTarget ==
    args.current = args.target =>
        \A week \in 1 .. args.weeks :
            /\ StdOfWeek(week).n = 0
            /\ result[week] = args.target

\* at the final week the noise is half of noise_level * |current - target|
StdHalvedAtTheEnd ==
    args.weeks >= 1 =>
        LET std == StdOfWeek(args.weeks)
        IN  2 * VScale * std.n = std.d * args.noise_level * Abs(args.current - args.target)

----------------------------------------------------------------------------
(* a further claim about score_metric *)

\* the benchmarks for which a lower value is the better one
LowerIsBetterBenchmarks ==
    { "vertical_oscillation_cm", "vertical_ratio", "ground_contact_time_ms",
      "step_speed_loss_percent" }

\* C25: a worse value never scores higher than a better one: for vertical
\* oscillation, vertical ratio, ground contact time and step-speed-loss the
\* score of score_metric is non-increasing as the value increases (each value
\* is compared with the next few hundredths: the order of the whole range
\* follows from that of its neighbours)
C25_WorseNeverScoresHigher ==
    (op = "score_metric" /\ args.benchmark_key \in LowerIsBetterBenchmarks) =>
        \A worse \in (args.value + 1) .. (args.value + 4) :
            (worse \in ValueWindow(args.benchmark_key)
                 /\ ~ScoreTie(worse, args.benchmark_key)) =>
                score_metric(worse, args.benchmark_key).score <= result.score

----------------------------------------------------------------------------
(* a further claim about the orchestrator *)

\* the positions of the log at which the body of `phase` was entered
Starts(phase) ==
    { i \in DOMAIN result.log : result.log[i] = PhaseEvent("start", phase) }

\* C26: within one run of the orchestrator the work of each phase is executed
\* at most once, for every phase selection and every state of the input files,
\* Activities.csv missing while phases 1 and 2 are both selected included
C26_EachPhaseAtMostOnce ==
    Constructed => \A phase \in 1 .. 4 : Cardinality(Starts(phase)) <= 1

----------------------------------------------------------------------------
(* further claims about the synthetic runs *)

\* the days of a month of 2025, which is not a leap year
DaysOfMonth(month) ==
    IF month = 2 THEN 28 ELSE IF month \in {4, 6, 9, 11} THEN 30 ELSE 31

\* C27: the date of every synthetic run is a valid calendar date, its month in
\* 01..12 and its day within that month, for every week and day of a
\* progression of up to 16 weeks and 3 runs a week
C27_ValidCalendarDates ==
    \A r \in TableRows :
        /\ r.date.year = 2025
        /\ r.date.month \in 1 .. 12
        /\ r.date.day \in 1 .. DaysOfMonth(r.date.month)

\* C28: activity_id identifies a synthetic run: the ids are pairwise distinct
\* within each table generate_synthetic_progression returns, and across all
\* archetypes in the master dataset that concatenates the tables
C28_UniqueActivityIds ==
    /\ \A rows \in Tables : \A i, j \in DOMAIN rows :
          i # j => rows[i].activity_id # rows[j].activity_id
    /\ Exists(files, MasterCsv) =>
          \A i, j \in DOMAIN files[MasterCsv] :
              i # j => files[MasterCsv][i].run.activity_id
                          # files[MasterCsv][j].run.activity_id

----------------------------------------------------------------------------
(* models/generate_ai_tips.py: the drills and generate_tips *)

DRILLS ==
    [ cadencespm |-> << "Metronome 170spm 10x1min", "High-knee 3x30s", "8x200m tempo" >>,
      verticaloscillationcm |->
          << "Light footstrike 10x20s", "Calf raises 4x15", "Pogo 3x20s" >>,
      groundcontacttimems |-> << "Bounding 6x30m", "Box jumps 4x10", "Ski hops 3x20s" >>,
      stepspeedlosspct |-> << "Hill repeats 8x30s", "Single-leg hops 3x15", "A-skips 4x40m" >>,
      paceminkm |-> << "Tempo 20min", "Fartlek 30min", "Strides 10x20s" >> ]

\* a metric name as the string of its characters
Chars(name) ==
    CASE name = "cadencespm" ->
            << "c", "a", "d", "e", "n", "c", "e", "s", "p", "m" >>
      [] name = "verticaloscillationcm" ->
            << "v", "e", "r", "t", "i", "c", "a", "l", "o", "s", "c", "i", "l", "l", "a", "t", "i", "o", "n", "c", "m" >>
      [] name = "groundcontacttimems" ->
            << "g", "r", "o", "u", "n", "d", "c", "o", "n", "t", "a", "c", "t", "t", "i", "m", "e", "m", "s" >>
      [] name = "stepspeedlosspct" ->
            << "s", "t", "e", "p", "s", "p", "e", "e", "d", "l", "o", "s", "s", "p", "c", "t" >>
      [] name = "heartratebpm" ->
            << "h", "e", "a", "r", "t", "r", "a", "t", "e", "b", "p", "m" >>
      [] name = "paceminkm" ->
            << "p", "a", "c", "e", "m", "i", "n", "k", "m" >>

\* s.split(sep)[0]: what stands before the first occurrence of sep, all of s
\* when sep does not occur
SplitHead(s, sep) ==
    LET hits == { i \in 1 .. Len(s) - Len(sep) + 1 : SubSeq(s, i, i + Len(sep) - 1) = sep }
    IN  IF hits = {} THEN s
        ELSE SubSeq(s, 1, (CHOOSE i \in hits : \A j \in hits : i <= j) - 1)

\* drill_key = metric.split('cm')[0].split('ms')[0], line 40
DrillKey(metric) == SplitHead(SplitHead(Chars(metric), << "c", "m" >>), << "m", "s" >>)

\* DRILLS.get(drill_key, DRILLS['stepspeedlosspct']), line 41
DrillsGet(drill_key) ==
    IF \E k \in DOMAIN DRILLS : Chars(k) = drill_key
    THEN DRILLS[CHOOSE k \in DOMAIN DRILLS : Chars(k) = drill_key]
    ELSE DRILLS.stepspeedlosspct

\* metric.replace('stepspeedlosspct', 'SSL').replace('paceminkm', 'Pace') on the
\* names of col_map, none of which holds one of the two as a proper part
MetricName(metric) ==
    IF metric = "stepspeedlosspct" THEN "SSL"
    ELSE IF metric = "paceminkm" THEN "Pace"
    ELSE metric

\* the opening line after the score, lines 30-36; form_score is in tenths
Verdict(score) ==
    IF score > 850 THEN "Elite!"
    ELSE IF score > 700 THEN "Good - fix gaps."
    ELSE "Big potential!"

\* the five lines of one week, lines 39-52; current, target and gap are the
\* floats the lines format with one decimal
WeekBlock(results, week) ==
    LET metric == results.priority_gaps[week][1]
        gap_data == results.priority_gaps[week][2]
    IN  [ line |-> "week", week |-> week, metric_name |-> MetricName(metric),
          current |-> gap_data.current, target |-> gap_data.target,
          gap |-> results.gaps[metric].gap,
          drill |-> DrillsGet(DrillKey(metric))[1] ]

\* generate_tips(results): the lines of the plan, a week's five lines as one entry
generate_tips(results) ==
    << [ line |-> "form", form_score |-> results.form_score ],
       [ line |-> "verdict", text |-> Verdict(results.form_score) ] >>
    \o [ week \in 1 .. Len(results.priority_gaps) |-> WeekBlock(results, week) ]
    \o << [ line |-> "log" ] >>

\* the script: generate_tips on the results predict_new_run returned, lines 63-64
GenerateTips ==
    /\ op = "predict_new_run"
    /\ result.raised = ""
    /\ op' = "generate_tips"
    /\ args' = [results |-> result]
    /\ result' = generate_tips(result)
    /\ steps' = steps + 1
    /\ UNCHANGED <<files, rng>>

NextTips == PredictNewRun \/ GenerateTips

SpecTips == InitPredictor /\ [][NextTips]_vars

----------------------------------------------------------------------------
(* The claim about the tips, checked under SpecTips *)

\* the week blocks of the plan returned, in the order of the plan
WeekBlocks == SelectSeq(result, LAMBDA tip : tip.line = "week")

\* C29: generate_tips emits one week block per priority gap, numbered 1, 2, 3
\* in priority order; a priority metric with its own entry in DRILLS is shown
\* the first drill of that entry, and the step-speed-loss drill stands in only
\* for a metric without an entry
C29_OwnDrillPerPriority ==
    op = "generate_tips" =>
        LET priorities == args.results.priority_gaps
        IN  /\ Len(WeekBlocks) = Len(priorities)
            /\ \A n \in DOMAIN WeekBlocks :
                  LET metric == priorities[n][1]
                  IN  /\ WeekBlocks[n].week = n
                      /\ WeekBlocks[n].metric_name = MetricName(metric)
                      /\ WeekBlocks[n].drill =
                             IF metric \in DOMAIN DRILLS THEN DRILLS[metric][1]
                             ELSE DRILLS.stepspeedlosspct[1]

----------------------------------------------------------------------------
(* activities_analyzer.py: create_running_profile, and analyze_form on the
   profile it builds *)

\* the analysis of an empty table: analyze_activities returns {}
EmptyAnalysis == [ key \in {} |-> 0 ]

\* the fields of an analysis that reach analyze_form, for a table whose averages
\* are those of `profile`; hr_zone_efficiency as analyze_activities computes it
AnalysisOf(profile) ==
    [ avg_cadence |-> profile.avg_cadence,
      avg_hr |-> profile.avg_hr,
      max_hr |-> profile.max_hr,
      hr_zone_efficiency |->
          IF profile.max_hr > 0 THEN Frac(profile.avg_hr * 100, profile.max_hr)
          ELSE Frac(0, 1),
      avg_vertical_oscillation |-> profile.avg_vertical_oscillation,
      avg_vertical_ratio |-> profile.avg_vertical_ratio,
      avg_ground_contact_time |-> profile.avg_ground_contact_time,
      avg_step_speed_loss_pct |-> profile.avg_step_speed_loss_pct ]

Analyses == {EmptyAnalysis} \cup { AnalysisOf(profile) : profile \in Profiles }

\* analysis.get(key, default)
AnalysisGet(analysis, key, default) ==
    IF key \in DOMAIN analysis THEN analysis[key] ELSE default

\* create_running_profile(analysis): the fields analyze_form reads, and the two
\* whose default is not 0
create_running_profile(analysis) ==
    [ avg_cadence |-> AnalysisGet(analysis, "avg_cadence", 0),
      avg_hr |-> AnalysisGet(analysis, "avg_hr", 0),
      max_hr |-> AnalysisGet(analysis, "max_hr", 0),
      avg_vertical_oscillation |-> AnalysisGet(analysis, "avg_vertical_oscillation", 0),
      avg_vertical_ratio |-> AnalysisGet(analysis, "avg_vertical_ratio", 0),
      avg_ground_contact_time |-> AnalysisGet(analysis, "avg_ground_contact_time", 0),
      avg_step_speed_loss_pct |-> AnalysisGet(analysis, "avg_step_speed_loss_pct", 0),
      avg_gct_balance_left |-> AnalysisGet(analysis, "avg_gct_balance_left", 50 * VScale),
      avg_gct_balance_right |-> AnalysisGet(analysis, "avg_gct_balance_right", 50 * VScale) ]

CreateRunningProfile ==
    /\ op = "start"
    /\ \E analysis \in Analyses :
        /\ op' = "create_running_profile"
        /\ args' = [analysis |-> analysis]
        /\ result' = create_running_profile(analysis)
        /\ steps' = 1
        /\ UNCHANGED <<files, rng>>

\* analyze_form on the profile just built
AnalyzeProfile ==
    /\ op = "create_running_profile"
    /\ ExactProfile(result)
    /\ op' = "analyze_form"
    /\ args' = [analysis |-> args.analysis, profile |-> result]
    /\ result' = analyze_form(result)
    /\ steps' = steps + 1
    /\ UNCHANGED <<files, rng>>

NextProfile == CreateRunningProfile \/ AnalyzeProfile

SpecProfile == InitScorer /\ [][NextProfile]_vars

----------------------------------------------------------------------------
(* The claim about the profile, checked under SpecProfile *)

\* C30: analyze_form returns an analysis without raising for every profile
\* create_running_profile can produce, the profile of an empty analysis and
\* that of activities whose maximum heart rate is 0 included, for which the
\* aggregator yields hr_zone_efficiency = 0.0
C30_AnalyzeFormNeverRaises ==
    op = "analyze_form" =>
        /\ args.profile = create_running_profile(args.analysis)
        /\ (args.analysis # EmptyAnalysis /\ args.analysis.max_hr = 0)
              => args.analysis.hr_zone_efficiency = Frac(0, 1)
        /\ result.raised = ""
====
